---- MODULE Spec2Model ----
\* Webhook ingestion and conversation-routing pipeline of cpc-mvp:
\* app/api/webhook/route.ts (POST/GET) and lib/whatsapp.ts (verifySignature,
\* extractMessage, Database, RateLimiter, BotFlows, WhatsAppAPI), with the
\* Supabase tables of supabase-schema.sql as the durable state.
EXTENDS Integers, Sequences, FiniteSets, TLC

\* ---------------------------------------------------------------- bounds
MaxReqs == 2
MaxDeliveries == 3
MaxLimit == 2
MinuteLen == 2
HexLen == 2
MaxCalls == 4
MaxBurst == 2
MaxRouted == 2
MaxPosts == 2
MaxLogged == 2

\* ---------------------------------------------------------------- values
Reqs == 1..MaxReqs
Senders == {"s1", "s2"}
MsgIds == {"m1", "m2"}
NoVal == "undefined"

BTN_MENU == "BTN_MENU"
BTN_ORDER == "BTN_ORDER"
BTN_MORE == "BTN_MORE"
BTN_BACK_HOME == "BTN_BACK_HOME"
BTN_CONTACT == "BTN_CONTACT"
BTN_HISTORY == "BTN_HISTORY"
BTN_DEMO == "BTN_DEMO"
BTN_FAQ == "BTN_FAQ"
BTN_CATALOGUE == "BTN_CATALOGUE"
BTN_BOOKING == "BTN_BOOKING"
BTN_LEAD == "BTN_LEAD"

ITEM_ZINGER == "ITEM_ZINGER"
ITEM_PIZZA == "ITEM_PIZZA"
ITEM_FRIES == "ITEM_FRIES"

\* ------------------------------------------------------- text (strings)
\* A text is a sequence of characters, so that trim() and toLowerCase()
\* are computed and not assumed.
Upper == <<"A","B","C","D","E","F","G","H","I","J","K","L","M","N","O","P","Q","R","S","T","U","V","W","X","Y","Z">>
Lower == <<"a","b","c","d","e","f","g","h","i","j","k","l","m","n","o","p","q","r","s","t","u","v","w","x","y","z">>

LowerChar(c) ==
  IF \E i \in 1..Len(Upper) : Upper[i] = c
  THEN Lower[CHOOSE i \in 1..Len(Upper) : Upper[i] = c]
  ELSE c

ToLowerCase(s) == [i \in 1..Len(s) |-> LowerChar(s[i])]

\* ------------------------------------------------------ webhook payloads
\* The content of a message as the provider sends it (msg.type, msg.text,
\* msg.interactive).
TextContent(t) ==
  [type |-> "text", itype |-> NoVal, hasReply |-> FALSE, reply |-> NoVal, text |-> t]
\* rid = NoVal: the button_reply / list_reply object is there without an id.
ButtonContent(rid) ==
  [type |-> "interactive", itype |-> "button_reply", hasReply |-> TRUE,
   reply |-> rid, text |-> <<>>]
ListContent(rid) ==
  [type |-> "interactive", itype |-> "list_reply", hasReply |-> TRUE,
   reply |-> rid, text |-> <<>>]
\* interactive.type is button_reply and the button_reply object is missing.
ButtonNoReply ==
  [type |-> "interactive", itype |-> "button_reply", hasReply |-> FALSE,
   reply |-> NoVal, text |-> <<>>]
OtherInteractive ==
  [type |-> "interactive", itype |-> "nfm_reply", hasReply |-> FALSE,
   reply |-> NoVal, text |-> <<>>]
ImageContent ==
  [type |-> "image", itype |-> NoVal, hasReply |-> FALSE, reply |-> NoVal, text |-> <<>>]

\* Who sends what under the two message ids: the cases the pipeline
\* distinguishes (a writing flow, a reading flow, a static flow, an unknown
\* item, an unsupported type; one sender or two).
Wires ==
  { [m1 |-> [from |-> "s1", content |-> ButtonContent(BTN_LEAD)],
     m2 |-> [from |-> "s1", content |-> ListContent(ITEM_ZINGER)]],
    [m1 |-> [from |-> "s1", content |-> TextContent(<<" ", "H", "i">>)],
     m2 |-> [from |-> "s2", content |-> ImageContent]],
    [m1 |-> [from |-> "s1", content |-> ListContent("ITEM_X")],
     m2 |-> [from |-> "s1", content |-> ButtonContent(BTN_HISTORY)]] }

\* Request bodies that carry no usable message.
Malformed == {"badjson", "null", "status", "empty", "noid", "nofrom", "noreply"}
Bodies == Malformed \cup MsgIds

\* The wire form of messages[0] for a message with the given sender, id and
\* content. An absent string is NoVal; an absent object has present = FALSE.
RawMsg(from, id, c) ==
  [from |-> from, id |-> id, type |-> c.type,
   interactive |-> [present |-> c.type = "interactive",
                    type |-> c.itype,
                    hasReply |-> c.hasReply,
                    reply_id |-> c.reply,
                    title |-> "title"],
   text |-> [present |-> c.type = "text", body |-> c.text]]

NoMessages == [present |-> FALSE, list |-> <<>>]
Messages(l) == [present |-> TRUE, list |-> l]

\* JSON.parse(body): ok = FALSE when it throws. w gives, for each message
\* id, the sender and the content the provider delivers under that id.
JsonParse(body, w) ==
  CASE body = "badjson" -> [ok |-> FALSE, isNull |-> FALSE, messages |-> NoMessages]
    [] body = "null" -> [ok |-> TRUE, isNull |-> TRUE, messages |-> NoMessages]
    [] body = "status" -> [ok |-> TRUE, isNull |-> FALSE, messages |-> NoMessages]
    [] body = "empty" -> [ok |-> TRUE, isNull |-> FALSE, messages |-> Messages(<<>>)]
    [] body = "noid" ->
         [ok |-> TRUE, isNull |-> FALSE,
          messages |-> Messages(<<RawMsg("s1", NoVal, TextContent(<<"h", "i">>))>>)]
    [] body = "nofrom" ->
         [ok |-> TRUE, isNull |-> FALSE,
          messages |-> Messages(<<RawMsg(NoVal, "m1", TextContent(<<"h", "i">>))>>)]
    [] body = "noreply" ->
         [ok |-> TRUE, isNull |-> FALSE,
          messages |-> Messages(<<RawMsg("s1", "m1", ButtonNoReply)>>)]
    [] OTHER ->
         [ok |-> TRUE, isNull |-> FALSE,
          messages |-> Messages(<<RawMsg(w[body].from, body, w[body].content)>>)]

Null == [null |-> TRUE, from |-> NoVal, id |-> NoVal, type |-> NoVal,
         kind |-> NoVal, reply_id |-> NoVal, title |-> NoVal, text |-> <<>>]

\* extractMessage: a TypeError inside the try block (data is null, or the
\* button_reply / list_reply object is missing) yields null.
extractMessage(data) ==
  IF data.isNull THEN Null
  ELSE IF ~data.messages.present THEN Null
  ELSE IF Len(data.messages.list) = 0 THEN Null
  ELSE
    LET msg == data.messages.list[1]
        result == [null |-> FALSE, from |-> msg.from, id |-> msg.id,
                   type |-> msg.type, kind |-> NoVal, reply_id |-> NoVal,
                   title |-> NoVal, text |-> <<>>]
    IN  IF msg.type = "interactive" THEN
          LET interactive == msg.interactive
              itype == IF interactive.present THEN interactive.type ELSE NoVal
          IN  IF itype = "button_reply" THEN
                IF ~interactive.hasReply THEN Null
                ELSE [result EXCEPT !.kind = "button",
                                    !.reply_id = interactive.reply_id,
                                    !.title = interactive.title]
              ELSE IF itype = "list_reply" THEN
                IF ~interactive.hasReply THEN Null
                ELSE [result EXCEPT !.kind = "list",
                                    !.reply_id = interactive.reply_id,
                                    !.title = interactive.title]
              ELSE [result EXCEPT !.kind = "interactive_other"]
        ELSE IF msg.type = "text" THEN
          [result EXCEPT !.kind = "text",
                         !.text = IF msg.text.present THEN msg.text.body ELSE <<>>]
        ELSE [result EXCEPT !.kind = "other"]

\* --------------------------------------------------------- signatures
\* The hex digest of HMAC-SHA256(appSecret, body): HexLen symbols, different
\* for different bodies.
Hmac(body) == [i \in 1..HexLen |-> body]

SigPrefix == "sha256="

\* Header values a caller can send for a body; <<>> is the absent header
\* (request.headers.get(..) || '').
Headers(body) ==
  { <<>>,
    <<SigPrefix>> \o Hmac(body),
    Hmac(body),
    <<SigPrefix>> \o [Hmac(body) EXCEPT ![1] = "0"],
    <<SigPrefix>> \o SubSeq(Hmac(body), 1, HexLen - 1),
    <<SigPrefix>> \o Hmac(body) \o <<"0">> }

\* Whether the header carries the HMAC of the raw body.
IsHmacOf(signature, body) ==
  signature = <<SigPrefix>> \o Hmac(body) \/ signature = Hmac(body)

\* verifySignature: "true", "false", or "throw" (crypto.timingSafeEqual
\* raises a RangeError when the two buffers differ in length).
verifySignature(appSecret, payload, signature) ==
  IF ~appSecret THEN "true"
  ELSE
    LET expectedSignature == Hmac(payload)
        providedSig == IF Len(signature) > 0 /\ Head(signature) = SigPrefix
                       THEN Tail(signature) ELSE signature
    IN  IF Len(expectedSignature) # Len(providedSig) THEN "throw"
        ELSE IF expectedSignature = providedSig THEN "true" ELSE "false"

\* ------------------------------------------------------------ bot flows
\* A flow is the sequence of awaited steps it performs: store operations and
\* sends. ids are the button ids or list row ids a send offers.
Snd(shape, tag, ids) == [op |-> "send", shape |-> shape, tag |-> tag, ids |-> ids]
Op(o) == [op |-> o, shape |-> NoVal, tag |-> NoVal, ids |-> {}]

showHome ==
  <<Snd("buttons", "home", {BTN_FAQ, BTN_CATALOGUE, BTN_MORE})>>

showFAQ ==
  <<Snd("text", "faq", {}),
    Snd("buttons", "faq_more", {BTN_CATALOGUE, BTN_LEAD, BTN_BACK_HOME})>>

showCatalogue == <<Op("catalogue_getMenuItems")>>

\* The list showCatalogue sends once getMenuItems has returned items.
CatalogueList(items) ==
  IF Cardinality(items) > 0
  THEN <<Snd("list", "catalogue", items)>>
  ELSE <<Snd("list", "catalogue", {ITEM_ZINGER, ITEM_PIZZA, ITEM_FRIES})>>

\* showBooking with a slip: the visitor of the booking demo is saved as a lead.
showBooking_Lead ==
  <<Op("captureLead_select"), Op("captureLead_write"),
    Snd("text", "booking", {}),
    Snd("buttons", "booking_more", {BTN_LEAD, BTN_FAQ, BTN_BACK_HOME})>>

showBooking ==
  <<Snd("text", "booking", {}),
    Snd("buttons", "booking_more", {BTN_LEAD, BTN_FAQ, BTN_BACK_HOME})>>

showLeadCapture ==
  <<Op("captureLead_select"), Op("captureLead_write"),
    Snd("text", "lead_captured", {})>> \o showHome

\* showMore with a slip: it offers a button that has no handler.
showMore_Demo ==
  <<Snd("buttons", "more", {BTN_BOOKING, BTN_DEMO, BTN_BACK_HOME})>>

showMore ==
  <<Snd("buttons", "more", {BTN_BOOKING, BTN_HISTORY, BTN_BACK_HOME})>>

showHistory == <<Op("getOrderHistory")>>

\* What showHistory sends once getOrderHistory has returned n orders.
HistoryReplies(n) ==
  IF n = 0 THEN <<Snd("text", "no_orders", {})>> \o showHome
  ELSE <<Snd("text", "recent_orders", {})>> \o showHome

showRateLimited == <<Snd("text", "slow_down", {})>>

handleOrder == <<Op("order_getMenuItems")>>

\* Names every object literal inherits from Object.prototype: a lookup
\* obj[key] with such a key yields the inherited member, not undefined.
\* "constructor" is callable and returns at once; "__proto__" is an object.
KEY_CONSTRUCTOR == "constructor"
KEY_PROTO == "__proto__"
ObjectPrototype == {KEY_CONSTRUCTOR, KEY_PROTO}

\* The keys of itemMap in handleOrder: one per available item, except that
\* itemMap["__proto__"] = item sets the prototype of itemMap and adds no key;
\* the three built-in items when Object.keys(itemMap) is empty.
ItemMapKeys(items) ==
  LET own == items \ {KEY_PROTO}
  IN  IF Cardinality(own) = 0 THEN {ITEM_ZINGER, ITEM_PIZZA, ITEM_FRIES} ELSE own

\* const item = itemMap[itemId]; if (item): an own key of itemMap, or a
\* member inherited from Object.prototype.
ItemFound(items, itemId) ==
  itemId \in ItemMapKeys(items) \/ itemId \in ObjectPrototype

\* What handleOrder does once getMenuItems has returned items.
OrderSteps(items, itemId) ==
  IF ItemFound(items, itemId)
  THEN <<Op("createOrder_select"), Op("createOrder_insert"),
         Snd("text", "order_placed", {})>> \o showHome
  ELSE <<Snd("text", "not_recognized", {})>> \o showCatalogue

unsupportedType == <<Snd("text", "unsupported", {})>> \o showHome

\* ------------------------------------------------------------- dispatch
IsSpace(c) == c \in {" ", "\t", "\n"}

RECURSIVE trimStart(_)
trimStart(s) == IF Len(s) > 0 /\ IsSpace(Head(s)) THEN trimStart(Tail(s)) ELSE s

RECURSIVE trimEnd(_)
trimEnd(s) ==
  IF Len(s) > 0 /\ IsSpace(s[Len(s)]) THEN trimEnd(SubSeq(s, 1, Len(s) - 1)) ELSE s

trim(s) == trimEnd(trimStart(s))

\* The vocabulary of the text branch, as character sequences.
\* The words the two bots compare a text with.
W ==
  [hi |-> <<"h", "i">>,
   hello |-> <<"h", "e", "l", "l", "o">>,
   start |-> <<"s", "t", "a", "r", "t">>,
   hey |-> <<"h", "e", "y">>,
   hola |-> <<"h", "o", "l", "a">>,
   menu |-> <<"m", "e", "n", "u">>,
   faq |-> <<"f", "a", "q">>,
   help |-> <<"h", "e", "l", "p">>,
   catalogue |-> <<"c", "a", "t", "a", "l", "o", "g", "u", "e">>,
   catalog |-> <<"c", "a", "t", "a", "l", "o", "g">>,
   products |-> <<"p", "r", "o", "d", "u", "c", "t", "s">>,
   order |-> <<"o", "r", "d", "e", "r">>,
   book |-> <<"b", "o", "o", "k">>,
   booking |-> <<"b", "o", "o", "k", "i", "n", "g">>,
   appointment |-> <<"a", "p", "p", "o", "i", "n", "t", "m", "e", "n", "t">>,
   lead |-> <<"l", "e", "a", "d">>,
   contact |-> <<"c", "o", "n", "t", "a", "c", "t">>,
   interest |-> <<"i", "n", "t", "e", "r", "e", "s", "t">>,
   demo |-> <<"d", "e", "m", "o">>,
   more |-> <<"m", "o", "r", "e">>,
   history |-> <<"h", "i", "s", "t", "o", "r", "y">>,
   orders |-> <<"o", "r", "d", "e", "r", "s">>,
   demo_cpc |-> <<"d", "e", "m", "o", " ", "c", "p", "c">>,
   follow |-> <<"f", "o", "l", "l", "o", "w">>,
   hour |-> <<"h", "o", "u", "r">>,
   time |-> <<"t", "i", "m", "e">>,
   open |-> <<"o", "p", "e", "n">>,
   close |-> <<"c", "l", "o", "s", "e">>,
   location |-> <<"l", "o", "c", "a", "t", "i", "o", "n">>,
   address |-> <<"a", "d", "d", "r", "e", "s", "s">>,
   where |-> <<"w", "h", "e", "r", "e">>,
   service |-> <<"s", "e", "r", "v", "i", "c", "e">>,
   offer |-> <<"o", "f", "f", "e", "r">>,
   do_you |-> <<"d", "o", " ", "y", "o", "u">>,
   price |-> <<"p", "r", "i", "c", "e">>,
   cost |-> <<"c", "o", "s", "t">>,
   how_much |-> <<"h", "o", "w", " ", "m", "u", "c", "h">>,
   yes |-> <<"y", "e", "s">>,
   confirm |-> <<"c", "o", "n", "f", "i", "r", "m">>,
   no |-> <<"n", "o">>,
   cancel |-> <<"c", "a", "n", "c", "e", "l">>]

\* The texts each branch of the text routing tests for.
Words ==
  [Home |-> {W.hi, W.hello, W.start, W.hey, W.hola, W.menu},
   Faq |-> {W.faq, W.help},
   Catalogue |-> {W.catalogue, W.catalog, W.products, W.order},
   Booking |-> {W.book, W.booking, W.appointment},
   Lead |-> {W.lead, W.contact, W.interest, W.demo},
   History |-> {W.history, W.orders}]

\* The text branch with a slip: the text is not trimmed.
TextFlow_NoTrim(rawText) ==
  LET text == ToLowerCase(rawText)
  IN  IF text \in Words.Home THEN "Home"
      ELSE IF text = W.faq \/ text = W.help THEN "FAQ"
      ELSE IF text \in Words.Catalogue THEN "Catalogue"
      ELSE IF text \in Words.Booking THEN "Booking"
      ELSE IF text \in Words.Lead THEN "LeadCapture"
      ELSE IF text = W.more THEN "More"
      ELSE IF text \in Words.History THEN "History"
      ELSE "Home"

\* The flow the text branch of POST runs for msg.text.
TextFlow(rawText) ==
  LET text == ToLowerCase(trim(rawText))
  IN  IF text \in Words.Home THEN "Home"
      ELSE IF text = W.faq \/ text = W.help THEN "FAQ"
      ELSE IF text \in Words.Catalogue THEN "Catalogue"
      ELSE IF text \in Words.Booking THEN "Booking"
      ELSE IF text \in Words.Lead THEN "LeadCapture"
      ELSE IF text = W.more THEN "More"
      ELSE IF text \in Words.History THEN "History"
      ELSE "Home"

\* handlers[rid] of the button branch; NoVal when the lookup is undefined.
\* "Inherited": the lookup yields Object.prototype.constructor, and calling
\* it does nothing; "NotCallable": it yields Object.prototype itself, and
\* calling it raises a TypeError.
handlers(rid) ==
  CASE rid = BTN_MENU -> "Home"
    [] rid = BTN_ORDER -> "Catalogue"
    [] rid = BTN_MORE -> "More"
    [] rid = BTN_HISTORY -> "History"
    [] rid = BTN_CONTACT -> "LeadCapture"
    [] rid = BTN_BACK_HOME -> "Home"
    [] rid = BTN_FAQ -> "FAQ"
    [] rid = BTN_CATALOGUE -> "Catalogue"
    [] rid = BTN_BOOKING -> "Booking"
    [] rid = BTN_LEAD -> "LeadCapture"
    [] rid = KEY_CONSTRUCTOR -> "Inherited"
    [] rid = KEY_PROTO -> "NotCallable"
    [] OTHER -> NoVal

ButtonFlow(rid) == IF handlers(rid) # NoVal THEN handlers(rid) ELSE "Home"

\* The dispatch with a slip: other kinds get the Home menu alone.
FlowOf_OtherHome(msg) ==
  IF msg.kind = "text" THEN TextFlow(msg.text)
  ELSE IF msg.kind = "button" THEN ButtonFlow(msg.reply_id)
  ELSE IF msg.kind = "list" THEN "Order"
  ELSE "Home"

\* The flow POST runs for an extracted message, by kind.
FlowOf(msg) ==
  IF msg.kind = "text" THEN TextFlow(msg.text)
  ELSE IF msg.kind = "button" THEN ButtonFlow(msg.reply_id)
  ELSE IF msg.kind = "list" THEN "Order"
  ELSE "Unsupported"

FlowSteps(flow) ==
  CASE flow = "Home" -> showHome
    [] flow = "FAQ" -> showFAQ
    [] flow = "Catalogue" -> showCatalogue
    [] flow = "Booking" -> showBooking
    [] flow = "LeadCapture" -> showLeadCapture
    [] flow = "More" -> showMore
    [] flow = "History" -> showHistory
    [] flow = "Order" -> handleOrder
    [] flow = "Unsupported" -> unsupportedType
    [] flow = "Inherited" -> <<>>
    [] flow = "NotCallable" -> <<>>

\* ---------------------------------------------------------------- state
VARIABLES
  config,              \* appSecret set or not, verifyToken, rateLimitRequests,
                       \* rateLimitWindowSeconds (in clock units)
  now,                 \* the clock, MinuteLen units to the minute
  wire,                \* message id -> sender and content delivered under it
  processed_messages,  \* table processed_messages: set of message_id (UNIQUE)
  rate_limits,         \* table rate_limits: (wa_id, window_start) -> request_count, 0 = no row
  users,               \* table users: wa_id -> row (wa_id UNIQUE)
  leads,               \* table leads: wa_id -> row (unique index on wa_id)
  orders,              \* table orders: rows in insertion order
  menu_items,          \* table menu_items: item_id of the available rows
  message_logs,        \* table message_logs: rows per (wa_id, direction)
  req,                 \* the handler invocations in flight: position and locals
  quota,               \* POSTs (or direct calls) that may still arrive
  routed,              \* message id -> times the routing of POST ran for it
  writes,              \* message id -> Order/Lead writes issued for it
  completed,           \* message id -> deliveries answered after extraction
  concurrent,          \* message id -> two deliveries of it were in flight together
  rlCalls,             \* (wa_id, window) -> checkRateLimit calls started
  rlAllowed,           \* (wa_id, window) -> calls that returned allowed = true
  handshake,           \* the response to the last GET: status and body
  logStoreUp,          \* the insert into message_logs succeeds at present
  userStates,          \* the secondary bot's Map: sender -> conversation state
  botOut,              \* the secondary bot's last exchange: sender, text, reply
  leadTurns            \* sender -> the texts it sent since it was asked its name

vars == <<config, now, wire, processed_messages, rate_limits, users, leads,
          orders, menu_items, message_logs, req, quota, routed, writes,
          completed, concurrent, rlCalls, rlAllowed, handshake, logStoreUp,
          userStates, botOut, leadTurns>>

stores == <<processed_messages, rate_limits, users, leads, orders, message_logs>>
tallies == <<routed, writes, completed, concurrent>>
rlTallies == <<rlCalls, rlAllowed>>
env == <<config, wire, menu_items, handshake, logStoreUp,
         userStates, botOut, leadTurns>>

\* The clock runs over two windows.
MaxTime == MinuteLen
Times == 0..MaxTime

\* windowStart.setSeconds(0, 0): the clock floored to the minute.
WindowStart(t) == t - (t % MinuteLen)

Windows == {WindowStart(t) : t \in Times}

IdleReq ==
  [pc |-> "idle", mode |-> "none", body |-> NoVal, sigMatch |-> TRUE, msg |-> Null,
   http |-> 0, status |-> NoVal, okStatus |-> "ok",
   at |-> 0, windowStart |-> 0, existing |-> 0, allowed |-> TRUE, ord |-> 0,
   found |-> FALSE, todo |-> <<>>, sends |-> <<>>, flows |-> <<>>,
   dup |-> FALSE, sawBlocked |-> FALSE, seq |-> FALSE, blockedAll |-> FALSE,
   nMark |-> 0, nRate |-> 0, nUser |-> 0, nDb |-> 0, nRows |-> 0,
   nLogFail |-> 0]

\* NextResponse.json({status}, {status: http}): the invocation ends.
Respond(rec, http, status) ==
  [rec EXCEPT !.pc = "done", !.http = http, !.status = status,
              !.todo = <<>>, !.existing = 0, !.found = FALSE,
              !.windowStart = 0, !.at = 0]

InFlight(r) == req[r].pc \notin {"idle", "done", "rl_ret"}

\* rows: the number of rows of table users with this wa_id.
NoUser == [exists |-> FALSE, rows |-> 0, is_blocked |-> FALSE,
           first_seen_at |-> -1, last_active_at |-> -1]
\* rows: the number of rows of table leads with this wa_id.
NoLead == [exists |-> FALSE, rows |-> 0, source |-> NoVal, last_interaction |-> -1]

NoHandshake == [mode |-> NoVal, token |-> NoVal, challenge |-> NoVal,
                http |-> 0, body |-> NoVal]

SeededMenu == {ITEM_ZINGER, ITEM_PIZZA, ITEM_FRIES}

\* A value that may be undefined: has = FALSE is undefined.
Absent == [has |-> FALSE, val |-> <<>>]
Val(t) == [has |-> TRUE, val |-> t]

\* An entry of userStates: { state, name, email, slot, day }; present = FALSE
\* is a sender without an entry.
St(state) ==
  [present |-> TRUE, state |-> state, name |-> Absent, email |-> Absent,
   slot |-> 0, day |-> NoVal]
NoState == [St(NoVal) EXCEPT !.present = FALSE]

\* A reply of the secondary bot: which text it is and what it inserts.
Reply(kind) ==
  [kind |-> kind, echo |-> Absent, name |-> Absent, email |-> Absent,
   business |-> Absent, phone |-> NoVal, slot |-> 0, day |-> NoVal]

InitStores ==
  /\ now = 0
  /\ processed_messages = {}
  /\ rate_limits = [k \in Senders \X Windows |-> 0]
  /\ users = [s \in Senders |-> NoUser]
  /\ leads = [s \in Senders |-> NoLead]
  /\ orders = <<>>
  /\ message_logs = [k \in Senders \X {"inbound", "outbound"} |-> 0]
  /\ req = [r \in Reqs |-> IdleReq]
  /\ routed = [m \in MsgIds |-> 0]
  /\ writes = [m \in MsgIds |-> 0]
  /\ completed = [m \in MsgIds |-> 0]
  /\ concurrent = [m \in MsgIds |-> FALSE]
  /\ rlCalls = [k \in Senders \X Windows |-> 0]
  /\ rlAllowed = [k \in Senders \X Windows |-> 0]
  /\ handshake = NoHandshake
  /\ logStoreUp = TRUE
  /\ userStates = [s \in Senders |-> NoState]
  /\ botOut = [from |-> NoVal, text |-> <<>>, was |-> NoVal, reply |-> Reply("none")]
  /\ leadTurns = [s \in Senders |-> <<>>]

\* process.env.WHATSAPP_VERIFY_TOKEN || 'cpc'
DefaultVerifyToken == "cpc"

\* The default configuration of the verify token and of the window length
\* (60 s, one minute of the clock).
Configs ==
  [appSecret : BOOLEAN, verifyToken : {DefaultVerifyToken},
   rateLimitRequests : 1..MaxLimit, rateLimitWindowSeconds : {MinuteLen}]

Init ==
  /\ InitStores
  /\ quota = MaxDeliveries
  /\ config \in Configs
  /\ menu_items \in {SeededMenu, {}}
  /\ wire \in Wires

\* ------------------------------------------------------ GET: handshake
\* Query parameters a caller can send; NoVal is an absent parameter
\* (searchParams.get returns null).
Modes == {NoVal, "subscribe", "unsubscribe"}
Tokens == {NoVal, DefaultVerifyToken, "tok2"}
Challenges == {NoVal, "c1"}

\* GET with a slip: hub.mode is not looked at.
GET_AnyMode(verifyToken, mode, token, challenge) ==
  IF token = verifyToken
  THEN [http |-> 200, body |-> challenge]
  ELSE [http |-> 403, body |-> "Verification failed"]

\* GET: the response to a handshake with the given query parameters.
GET(verifyToken, mode, token, challenge) ==
  IF mode = "subscribe" /\ token = verifyToken
  THEN [http |-> 200, body |-> challenge]
  ELSE [http |-> 403, body |-> "Verification failed"]

\* A GET arrives and is answered; the request is kept with the response.
Handshake ==
  /\ \E mode \in Modes : \E token \in Tokens : \E challenge \in Challenges :
       LET out == GET(config.verifyToken, mode, token, challenge)
       IN  handshake' = [mode |-> mode, token |-> token, challenge |-> challenge,
                         http |-> out.http, body |-> out.body]
  /\ UNCHANGED <<now, stores, config, wire, menu_items, logStoreUp, userStates,
                 botOut, leadTurns, req,
                 quota, tallies, rlTallies>>

\* ------------------------------------------------- POST: up to extraction
\* PostPrefix with a slip: a payload without a usable message is answered
\* as a bad request.
PostPrefix_Ignored400(appSecret, body, signature, w) ==
  LET verdict == verifySignature(appSecret, body, signature)
      data == JsonParse(body, w)
      msg == extractMessage(data)
  IN  IF appSecret /\ verdict = "throw"
        THEN [http |-> 200, status |-> "error", msg |-> Null]
      ELSE IF appSecret /\ verdict = "false"
        THEN [http |-> 401, status |-> "invalid_signature", msg |-> Null]
      ELSE IF ~data.ok
        THEN [http |-> 400, status |-> "invalid_json", msg |-> Null]
      ELSE IF msg.null \/ msg.id = NoVal \/ msg.from = NoVal
        THEN [http |-> 400, status |-> "ignored", msg |-> Null]
      ELSE [http |-> 0, status |-> NoVal, msg |-> msg]

\* POST from request.text() to the first await after extraction: signature
\* check, JSON.parse, extractMessage. A throw of verifySignature lands in
\* the catch block of POST. http = 0: no response yet, msg goes on.
PostPrefix(appSecret, body, signature, w) ==
  LET verdict == verifySignature(appSecret, body, signature)
      data == JsonParse(body, w)
      msg == extractMessage(data)
  IN  IF appSecret /\ verdict = "throw"
        THEN [http |-> 200, status |-> "error", msg |-> Null]
      ELSE IF appSecret /\ verdict = "false"
        THEN [http |-> 401, status |-> "invalid_signature", msg |-> Null]
      ELSE IF ~data.ok
        THEN [http |-> 400, status |-> "invalid_json", msg |-> Null]
      ELSE IF msg.null \/ msg.id = NoVal \/ msg.from = NoVal
        THEN [http |-> 200, status |-> "ignored", msg |-> Null]
      ELSE [http |-> 0, status |-> NoVal, msg |-> msg]

\* A POST arrives and runs up to its first await.
Receive(r) ==
  /\ ~InFlight(r)
  /\ \A q \in Reqs : q < r => InFlight(q)
  /\ quota > 0
  /\ \E body \in Bodies : \E signature \in Headers(body) :
       LET out == PostPrefix(config.appSecret, body, signature, wire)
           msg == out.msg
           base == [IdleReq EXCEPT !.mode = "post", !.body = body,
                                   !.sigMatch = IsHmacOf(signature, body)]
           others == {q \in Reqs \ {r} : InFlight(q) /\ req[q].msg.id = msg.id}
       IN  /\ req' = [req EXCEPT ![r] =
                IF out.http # 0
                THEN Respond(base, out.http, out.status)
                ELSE [base EXCEPT
                        !.pc = "log", !.msg = msg,
                        !.seq = completed[msg.id] > 0 /\ others = {},
                        !.blockedAll = users[msg.from].exists
                                       /\ users[msg.from].is_blocked]]
           /\ concurrent' = IF out.http = 0 /\ others # {}
                            THEN [concurrent EXCEPT ![msg.id] = TRUE]
                            ELSE concurrent
  /\ quota' = quota - 1
  /\ UNCHANGED <<now, stores, env, routed, writes, completed, rlTallies>>

\* The end of an invocation that got past extraction.
Finish(r, rec, http, status) ==
  /\ req' = [req EXCEPT ![r] = Respond(rec, http, status)]
  /\ completed' = [completed EXCEPT ![rec.msg.id] = @ + 1]

\* logMessage: the insert into message_logs adds a row, or fails and adds
\* none; the failure stays inside logMessage (it is returned by the client
\* or caught and written to the console).
logMessage(logs, waId, direction, up) ==
  IF up THEN [logs EXCEPT ![<<waId, direction>>] = @ + 1] ELSE logs

\* The inbound log with a slip: a failed insert is thrown on to POST.
LogInbound_Fatal(r) ==
  /\ req[r].pc = "log"
  /\ message_logs' = logMessage(message_logs, req[r].msg.from, "inbound", logStoreUp)
  /\ IF logStoreUp
     THEN req' = [req EXCEPT ![r].pc = "dedup"] /\ UNCHANGED completed
     ELSE Finish(r, [req[r] EXCEPT !.nLogFail = @ + 1], 200, "error")
  /\ UNCHANGED <<now, processed_messages, rate_limits, users, leads, orders,
                 env, quota, routed, writes, concurrent, rlTallies>>

\* WhatsAppAPI.logMessage(waId, 'inbound', ..)
LogInbound(r) ==
  /\ req[r].pc = "log"
  /\ message_logs' = logMessage(message_logs, req[r].msg.from, "inbound", logStoreUp)
  /\ req' = [req EXCEPT ![r].pc = "dedup",
                        ![r].nLogFail = IF logStoreUp THEN @ ELSE @ + 1]
  /\ UNCHANGED <<now, processed_messages, rate_limits, users, leads, orders,
                 env, quota, tallies, rlTallies>>

\* The dedup check with a slip: markProcessed is not called after it.
AlreadyProcessed_SkipMark(r) ==
  /\ req[r].pc = "dedup"
  /\ IF req[r].msg.id \in processed_messages
     THEN Finish(r, [req[r] EXCEPT !.dup = TRUE], 200, "duplicate")
     ELSE /\ req' = [req EXCEPT ![r].pc = "blocked"]
          /\ UNCHANGED completed
  /\ UNCHANGED <<now, stores, env, quota, routed, writes, concurrent, rlTallies>>

\* Database.alreadyProcessed and the duplicate response.
AlreadyProcessed(r) ==
  /\ req[r].pc = "dedup"
  /\ IF req[r].msg.id \in processed_messages
     THEN Finish(r, [req[r] EXCEPT !.dup = TRUE], 200, "duplicate")
     ELSE /\ req' = [req EXCEPT ![r].pc = "mark"]
          /\ UNCHANGED completed
  /\ UNCHANGED <<now, stores, env, quota, routed, writes, concurrent, rlTallies>>

\* markProcessed with a slip: the row is never inserted.
MarkProcessed_NoInsert(r) ==
  /\ req[r].pc = "mark"
  /\ req' = [req EXCEPT ![r].pc = "blocked", ![r].nMark = @ + 1]
  /\ UNCHANGED <<now, stores, env, quota, tallies, rlTallies>>

\* Database.markProcessed: an insert; a unique violation is returned by the
\* client, not thrown, and nobody looks at it.
MarkProcessed(r) ==
  /\ req[r].pc = "mark"
  /\ processed_messages' = processed_messages \cup {req[r].msg.id}
  /\ req' = [req EXCEPT ![r].pc = "blocked", ![r].nMark = @ + 1]
  /\ UNCHANGED <<now, rate_limits, users, leads, orders, message_logs,
                 env, quota, tallies, rlTallies>>

\* The first lines of checkRateLimit: windowStart is taken from the clock
\* when the call is made, before the select is awaited.
EnterCheck(rec, t) ==
  [rec EXCEPT !.pc = "rl_select", !.at = t, !.windowStart = WindowStart(t),
              !.ord = rlCalls[<<rec.msg.from, WindowStart(t)>>] + 1]

\* The blocked check with a slip: is_blocked is never honoured.
IsUserBlocked_Ignored(r) ==
  /\ req[r].pc = "blocked"
  /\ req' = [req EXCEPT ![r] = EnterCheck(req[r], now)]
  /\ rlCalls' = [rlCalls EXCEPT ![<<req[r].msg.from, WindowStart(now)>>] = @ + 1]
  /\ UNCHANGED <<now, stores, env, quota, tallies, rlAllowed>>

\* The blocked check with a slip: the blocked response takes the message id
\* out of processed_messages again.
IsUserBlocked_Unmark(r) ==
  /\ req[r].pc = "blocked"
  /\ LET waId == req[r].msg.from
         blocked == users[waId].exists /\ users[waId].is_blocked
     IN  IF blocked
         THEN /\ Finish(r, [req[r] EXCEPT !.sawBlocked = TRUE], 200, "blocked")
              /\ processed_messages' = processed_messages \ {req[r].msg.id}
              /\ UNCHANGED rlCalls
         ELSE /\ req' = [req EXCEPT ![r] = EnterCheck(req[r], now)]
              /\ rlCalls' = [rlCalls EXCEPT ![<<waId, WindowStart(now)>>] = @ + 1]
              /\ UNCHANGED <<completed, processed_messages>>
  /\ UNCHANGED <<now, rate_limits, users, leads, orders, message_logs, env,
                 quota, routed, writes, concurrent, rlAllowed>>

\* Database.isUserBlocked and the blocked response; otherwise
\* RateLimiter.checkRateLimit is called.
IsUserBlocked(r) ==
  /\ req[r].pc = "blocked"
  /\ LET waId == req[r].msg.from
         blocked == users[waId].exists /\ users[waId].is_blocked
     IN  IF blocked
         THEN /\ Finish(r, [req[r] EXCEPT !.sawBlocked = TRUE], 200, "blocked")
              /\ UNCHANGED rlCalls
         ELSE /\ req' = [req EXCEPT ![r] = EnterCheck(req[r], now)]
              /\ rlCalls' = [rlCalls EXCEPT ![<<waId, WindowStart(now)>>] = @ + 1]
              /\ UNCHANGED completed
  /\ UNCHANGED <<now, stores, env, quota, routed, writes, concurrent, rlAllowed>>

\* --------------------------------------------------------- RateLimiter
\* POST with a slip: the result of checkRateLimit is not looked at.
AfterCheck_NoNotice(rec, allowed) ==
  IF rec.mode = "post"
  THEN [rec EXCEPT !.pc = "user_select", !.allowed = allowed, !.existing = 0]
  ELSE [rec EXCEPT !.pc = "rl_ret", !.allowed = allowed, !.existing = 0]

\* What follows the return of checkRateLimit: in POST the rate-limited reply
\* or getOrCreateUser; for a direct caller the result.
AfterCheck(rec, allowed) ==
  IF rec.mode = "post"
  THEN IF allowed
       THEN [rec EXCEPT !.pc = "user_select", !.allowed = TRUE, !.existing = 0]
       ELSE [rec EXCEPT !.pc = "flow", !.allowed = FALSE, !.existing = 0,
                        !.todo = showRateLimited, !.okStatus = "rate_limited"]
  ELSE [rec EXCEPT !.pc = "rl_ret", !.allowed = allowed, !.existing = 0]

Tally(rec, allowed) ==
  rlAllowed' = IF allowed
               THEN [rlAllowed EXCEPT ![<<rec.msg.from, rec.windowStart>>] = @ + 1]
               ELSE rlAllowed

\* checkRateLimit with a slip: > in place of >=.
RLSelect_OffByOne(r) ==
  /\ req[r].pc = "rl_select"
  /\ LET existing == rate_limits[<<req[r].msg.from, req[r].windowStart>>]
     IN  IF existing > 0
         THEN IF existing > config.rateLimitRequests
              THEN /\ req' = [req EXCEPT ![r] = AfterCheck(req[r], FALSE)]
                   /\ Tally(req[r], FALSE)
              ELSE /\ req' = [req EXCEPT ![r].pc = "rl_update",
                                         ![r].existing = existing]
                   /\ UNCHANGED rlAllowed
         ELSE /\ req' = [req EXCEPT ![r].pc = "rl_insert"]
              /\ UNCHANGED rlAllowed
  /\ UNCHANGED <<now, stores, env, quota, tallies, rlCalls>>

\* checkRateLimit: the select of the row of (waId, windowStart) and, for a
\* row at the limit, the rejection.
RLSelect(r) ==
  /\ req[r].pc = "rl_select"
  /\ LET existing == rate_limits[<<req[r].msg.from, req[r].windowStart>>]
     IN  IF existing > 0
         THEN IF existing >= config.rateLimitRequests
              THEN /\ req' = [req EXCEPT ![r] = AfterCheck(req[r], FALSE)]
                   /\ Tally(req[r], FALSE)
              ELSE /\ req' = [req EXCEPT ![r].pc = "rl_update",
                                         ![r].existing = existing]
                   /\ UNCHANGED rlAllowed
         ELSE /\ req' = [req EXCEPT ![r].pc = "rl_insert"]
              /\ UNCHANGED rlAllowed
  /\ UNCHANGED <<now, stores, env, quota, tallies, rlCalls>>

\* The update with a slip: the row is incremented in place, whatever the
\* count read.
RLUpdate_Increment(r) ==
  /\ req[r].pc = "rl_update"
  /\ rate_limits' = [rate_limits EXCEPT
                       ![<<req[r].msg.from, req[r].windowStart>>] = @ + 1]
  /\ req' = [req EXCEPT ![r] = AfterCheck([req[r] EXCEPT !.nRate = @ + 1], TRUE)]
  /\ Tally(req[r], TRUE)
  /\ UNCHANGED <<now, processed_messages, users, leads, orders, message_logs,
                 env, quota, tallies, rlCalls>>

\* checkRateLimit: update request_count to the count read plus one.
RLUpdate(r) ==
  /\ req[r].pc = "rl_update"
  /\ rate_limits' = [rate_limits EXCEPT
                       ![<<req[r].msg.from, req[r].windowStart>>] = req[r].existing + 1]
  /\ req' = [req EXCEPT ![r] = AfterCheck([req[r] EXCEPT !.nRate = @ + 1], TRUE)]
  /\ Tally(req[r], TRUE)
  /\ UNCHANGED <<now, processed_messages, users, leads, orders, message_logs,
                 env, quota, tallies, rlCalls>>

\* checkRateLimit: insert of a row with request_count 1; UNIQUE(wa_id,
\* window_start) rejects it when a row is there by now, and the call
\* returns allowed all the same.
RLInsert(r) ==
  /\ req[r].pc = "rl_insert"
  /\ LET k == <<req[r].msg.from, req[r].windowStart>>
     IN  rate_limits' = IF rate_limits[k] = 0
                        THEN [rate_limits EXCEPT ![k] = 1]
                        ELSE rate_limits
  /\ req' = [req EXCEPT ![r] = AfterCheck([req[r] EXCEPT !.nRate = @ + 1], TRUE)]
  /\ Tally(req[r], TRUE)
  /\ UNCHANGED <<now, processed_messages, users, leads, orders, message_logs,
                 env, quota, tallies, rlCalls>>

\* ----------------------------------------------- user upsert and routing
\* Database.getOrCreateUser: the select.
UserSelect(r) ==
  /\ req[r].pc = "user_select"
  /\ req' = [req EXCEPT ![r].pc = "user_write",
                        ![r].found = users[req[r].msg.from].exists]
  /\ UNCHANGED <<now, stores, env, quota, tallies, rlTallies>>

\* getOrCreateUser with a slip: the insert is not held back by UNIQUE(wa_id).
UserWrite_NoUnique(r) ==
  /\ req[r].pc = "user_write"
  /\ LET waId == req[r].msg.from
         flow == FlowOf(req[r].msg)
     IN  /\ users' = IF req[r].found
                     THEN [users EXCEPT ![waId].last_active_at = now]
                     ELSE [users EXCEPT ![waId] =
                             [exists |-> TRUE, rows |-> users[waId].rows + 1,
                              is_blocked |-> users[waId].is_blocked,
                              first_seen_at |-> now, last_active_at |-> now]]
         /\ LET rec == [req[r] EXCEPT !.pc = "flow", !.found = FALSE,
                                       !.nUser = @ + 1,
                                       !.flows = Append(@, flow),
                                       !.todo = FlowSteps(flow)]
            IN  IF flow = "NotCallable" THEN Finish(r, rec, 200, "error")
                ELSE IF FlowSteps(flow) = <<>> THEN Finish(r, rec, 200, "ok")
                ELSE req' = [req EXCEPT ![r] = rec] /\ UNCHANGED completed
         /\ routed' = [routed EXCEPT ![req[r].msg.id] = @ + 1]
  /\ UNCHANGED <<now, processed_messages, rate_limits, leads, orders,
                 message_logs, env, quota, writes, concurrent, rlTallies>>

\* Database.getOrCreateUser: update of last_active_at when the select found
\* a row, else the insert of a new row, which UNIQUE(wa_id) rejects when a
\* row of waId is there by now; then POST picks the flow for the message. A
\* handler that does nothing, or cannot be called, ends the request here.
UserWrite(r) ==
  /\ req[r].pc = "user_write"
  /\ LET waId == req[r].msg.from
         flow == FlowOf(req[r].msg)
     IN  /\ users' = IF req[r].found
                     THEN [users EXCEPT ![waId].last_active_at = now]
                     ELSE IF ~users[waId].exists
                     THEN [users EXCEPT ![waId] =
                             [exists |-> TRUE, rows |-> 1, is_blocked |-> FALSE,
                              first_seen_at |-> now, last_active_at |-> now]]
                     ELSE users
         /\ LET rec == [req[r] EXCEPT !.pc = "flow", !.found = FALSE,
                                       !.nUser = @ + 1,
                                       !.flows = Append(@, flow),
                                       !.todo = FlowSteps(flow)]
            IN  IF flow = "NotCallable" THEN Finish(r, rec, 200, "error")
                ELSE IF FlowSteps(flow) = <<>> THEN Finish(r, rec, 200, "ok")
                ELSE req' = [req EXCEPT ![r] = rec] /\ UNCHANGED completed
         /\ routed' = [routed EXCEPT ![req[r].msg.id] = @ + 1]
  /\ UNCHANGED <<now, processed_messages, rate_limits, leads, orders,
                 message_logs, env, quota, writes, concurrent, rlTallies>>

\* ----------------------------------------------------------- flow steps
AtStep(r, op) ==
  /\ req[r].pc = "flow"
  /\ Len(req[r].todo) > 0
  /\ Head(req[r].todo).op = op

\* The send with a slip: a failure is swallowed and the flow goes on.
Send_Swallow(r) ==
  /\ AtStep(r, "send")
  /\ \E ok \in BOOLEAN :
       LET step == Head(req[r].todo)
           rest == Tail(req[r].todo)
           rec == [req[r] EXCEPT
                     !.sends = Append(@, [shape |-> step.shape, tag |-> step.tag,
                                          ids |-> step.ids, ok |-> ok]),
                     !.todo = rest,
                     !.nLogFail = IF ok /\ ~logStoreUp THEN @ + 1 ELSE @]
       IN  /\ message_logs' =
                IF ok
                THEN logMessage(message_logs, req[r].msg.from, "outbound", logStoreUp)
                ELSE message_logs
           /\ IF rest = <<>>
              THEN Finish(r, rec, 200, rec.okStatus)
              ELSE req' = [req EXCEPT ![r] = rec] /\ UNCHANGED completed
  /\ UNCHANGED <<now, processed_messages, rate_limits, users, leads, orders,
                 env, quota, routed, writes, concurrent, rlTallies>>

\* WhatsAppAPI.sendText / sendButtons / sendList: send() either returns, and
\* the message is logged as outbound, or throws; the throw ends the flow and
\* reaches the catch block of POST. After the last step POST responds.
Send(r) ==
  /\ AtStep(r, "send")
  /\ \E ok \in BOOLEAN :
       LET step == Head(req[r].todo)
           rest == Tail(req[r].todo)
           rec == [req[r] EXCEPT
                     !.sends = Append(@, [shape |-> step.shape, tag |-> step.tag,
                                          ids |-> step.ids, ok |-> ok]),
                     !.todo = rest,
                     !.nLogFail = IF ok /\ ~logStoreUp THEN @ + 1 ELSE @]
       IN  IF ok
           THEN /\ message_logs' =
                     logMessage(message_logs, req[r].msg.from, "outbound", logStoreUp)
                /\ IF rest = <<>>
                   THEN Finish(r, rec, 200, rec.okStatus)
                   ELSE req' = [req EXCEPT ![r] = rec] /\ UNCHANGED completed
           ELSE /\ Finish(r, rec, 200, "error")
                /\ UNCHANGED message_logs
  /\ UNCHANGED <<now, processed_messages, rate_limits, users, leads, orders,
                 env, quota, routed, writes, concurrent, rlTallies>>

\* showCatalogue: Database.getMenuItems, then the list to send.
CatalogueGetMenuItems(r) ==
  /\ AtStep(r, "catalogue_getMenuItems")
  /\ req' = [req EXCEPT ![r].todo = CatalogueList(menu_items) \o Tail(@)]
  /\ UNCHANGED <<now, stores, env, quota, tallies, rlTallies>>

\* handleOrder: Database.getMenuItems, the item map and the lookup of itemId.
OrderGetMenuItems(r) ==
  /\ AtStep(r, "order_getMenuItems")
  /\ req' = [req EXCEPT ![r].todo =
               OrderSteps(menu_items, req[r].msg.reply_id) \o Tail(@)]
  /\ UNCHANGED <<now, stores, env, quota, tallies, rlTallies>>

\* Database.captureLead: the select of the lead of waId.
CaptureLeadSelect(r) ==
  /\ AtStep(r, "captureLead_select")
  /\ req' = [req EXCEPT ![r].todo = Tail(@),
                        ![r].found = leads[req[r].msg.from].exists]
  /\ UNCHANGED <<now, stores, env, quota, tallies, rlTallies>>

\* captureLead with a slip: the insert is not held back by a unique index.
CaptureLeadWrite_NoIndex(r) ==
  /\ AtStep(r, "captureLead_write")
  /\ LET waId == req[r].msg.from
     IN  leads' =
           IF req[r].found
           THEN [leads EXCEPT ![waId].last_interaction = now]
           ELSE [leads EXCEPT ![waId] = [exists |-> TRUE, rows |-> leads[waId].rows + 1,
                                         source |-> "whatsapp_demo",
                                         last_interaction |-> -1]]
  /\ req' = [req EXCEPT ![r].todo = Tail(@), ![r].found = FALSE, ![r].nDb = @ + 1]
  /\ writes' = [writes EXCEPT ![req[r].msg.id] = @ + 1]
  /\ UNCHANGED <<now, processed_messages, rate_limits, users, orders,
                 message_logs, env, quota, routed, completed, concurrent,
                 rlTallies>>

\* Database.captureLead: update of last_interaction when a lead was found,
\* else the insert, which the unique index on wa_id rejects when a row of
\* waId is there by now; the rejection is returned, not thrown.
CaptureLeadWrite(r) ==
  /\ AtStep(r, "captureLead_write")
  /\ LET waId == req[r].msg.from
     IN  leads' =
           IF req[r].found
           THEN [leads EXCEPT ![waId].last_interaction = now]
           ELSE IF ~leads[waId].exists
           THEN [leads EXCEPT ![waId] = [exists |-> TRUE, rows |-> 1,
                                         source |-> "whatsapp_demo",
                                         last_interaction |-> -1]]
           ELSE leads
  /\ req' = [req EXCEPT ![r].todo = Tail(@), ![r].found = FALSE, ![r].nDb = @ + 1]
  /\ writes' = [writes EXCEPT ![req[r].msg.id] = @ + 1]
  /\ UNCHANGED <<now, processed_messages, rate_limits, users, orders,
                 message_logs, env, quota, routed, completed, concurrent,
                 rlTallies>>

\* Database.createOrder: the select of the user id.
CreateOrderSelect(r) ==
  /\ AtStep(r, "createOrder_select")
  /\ req' = [req EXCEPT ![r].todo = Tail(@),
                        ![r].found = users[req[r].msg.from].exists]
  /\ UNCHANGED <<now, stores, env, quota, tallies, rlTallies>>

\* Database.createOrder: the insert of the order row. order_number is
\* UNIQUE with a random default: when the table holds rows the number drawn
\* may be one of theirs, the insert is then rejected, and createOrder
\* returns as if it had succeeded.
CreateOrderInsert(r) ==
  /\ AtStep(r, "createOrder_insert")
  /\ \E taken \in {FALSE} \cup {orders # <<>>} :
       /\ orders' = IF taken THEN orders
                    ELSE Append(orders, [wa_id |-> req[r].msg.from,
                                         item_id |-> req[r].msg.reply_id,
                                         has_user |-> req[r].found])
       /\ req' = [req EXCEPT ![r].todo = Tail(@), ![r].found = FALSE,
                             ![r].nDb = @ + 1,
                             ![r].nRows = IF taken THEN @ ELSE @ + 1]
  /\ writes' = [writes EXCEPT ![req[r].msg.id] = @ + 1]
  /\ UNCHANGED <<now, processed_messages, rate_limits, users, leads,
                 message_logs, env, quota, routed, completed, concurrent,
                 rlTallies>>

OrdersOf(waId) == {i \in 1..Len(orders) : orders[i].wa_id = waId}

\* showHistory: Database.getOrderHistory(waId, 5), then the replies.
GetOrderHistory(r) ==
  /\ AtStep(r, "getOrderHistory")
  /\ req' = [req EXCEPT ![r].todo =
               HistoryReplies(Cardinality(OrdersOf(req[r].msg.from))) \o Tail(@)]
  /\ UNCHANGED <<now, stores, env, quota, tallies, rlTallies>>

\* ----------------------------------------------------------- environment
\* An administrator sets or clears users.is_blocked of an existing user.
AdminSetBlocked(s) ==
  /\ users[s].exists
  /\ users' = [users EXCEPT ![s].is_blocked = ~@]
  /\ req' = [r \in Reqs |->
               IF InFlight(r) /\ req[r].msg.from = s /\ users[s].is_blocked
               THEN [req[r] EXCEPT !.blockedAll = FALSE] ELSE req[r]]
  /\ UNCHANGED <<now, processed_messages, rate_limits, leads, orders,
                 message_logs, env, quota, tallies, rlTallies>>

\* Time passes.
Tick ==
  /\ now < MaxTime
  /\ now' = now + 1
  /\ UNCHANGED <<stores, env, req, quota, tallies, rlTallies>>

\* One invocation at a time: a POST arrives when no other is in flight.
ReceiveSeq(r) ==
  /\ \A q \in Reqs : ~InFlight(q)
  /\ Receive(r)

Work(r) ==
  \/ LogInbound(r)
  \/ AlreadyProcessed(r)
  \/ MarkProcessed(r)
  \/ IsUserBlocked(r)
  \/ RLSelect(r)
  \/ RLUpdate(r)
  \/ RLInsert(r)
  \/ UserSelect(r)
  \/ UserWrite(r)
  \/ Send(r)
  \/ CatalogueGetMenuItems(r)
  \/ OrderGetMenuItems(r)
  \/ CaptureLeadSelect(r)
  \/ CaptureLeadWrite(r)
  \/ CreateOrderSelect(r)
  \/ CreateOrderInsert(r)
  \/ GetOrderHistory(r)

\* Deliveries handled one after the other within one rate window, with the
\* administrator acting at any time.
Next ==
  \/ \E r \in Reqs : ReceiveSeq(r)
  \/ \E r \in Reqs : Work(r)
  \/ \E s \in Senders : AdminSetBlocked(s)

Spec == Init /\ [][Next]_vars

\* Deliveries handled concurrently: every await is a point where the other
\* invocation may run.
InitConc ==
  /\ InitStores
  /\ quota = MaxBurst
  /\ config \in Configs
  /\ menu_items = SeededMenu
  /\ wire \in Wires

NextConc ==
  \/ \E r \in Reqs : Receive(r)
  \/ \E r \in Reqs : Work(r)

SpecConc == InitConc /\ [][NextConc]_vars

\* ------------------------------------------- checkRateLimit on its own
\* A caller invokes RateLimiter.checkRateLimit(s) directly.
CallCheckRateLimit(r, s) ==
  /\ ~InFlight(r)
  /\ \A q \in Reqs : q < r => InFlight(q)
  /\ quota > 0
  /\ quota' = quota - 1
  /\ req' = [req EXCEPT ![r] =
               EnterCheck([IdleReq EXCEPT !.mode = "call", !.msg.from = s], now)]
  /\ rlCalls' = [rlCalls EXCEPT ![<<s, WindowStart(now)>>] = @ + 1]
  /\ UNCHANGED <<now, stores, env, tallies, rlAllowed>>

CallSeq(r, s) ==
  /\ \A q \in Reqs : ~InFlight(q)
  /\ CallCheckRateLimit(r, s)

InitRL ==
  /\ InitStores
  /\ quota = MaxCalls
  /\ config \in {c \in Configs : ~c.appSecret}
  /\ menu_items = SeededMenu
  /\ wire \in {w \in Wires : w.m2.from = "s2"}

\* Concurrent callers.
NextRL ==
  \/ \E r \in Reqs : \E s \in Senders : CallCheckRateLimit(r, s)
  \/ \E r \in Reqs : RLSelect(r)
  \/ \E r \in Reqs : RLUpdate(r)
  \/ \E r \in Reqs : RLInsert(r)
  \/ Tick

SpecRL == InitRL /\ [][NextRL]_vars

\* One call after the other.
NextRLSeq ==
  \/ \E r \in Reqs : \E s \in Senders : CallSeq(r, s)
  \/ \E r \in Reqs : RLSelect(r)
  \/ \E r \in Reqs : RLUpdate(r)
  \/ \E r \in Reqs : RLInsert(r)
  \/ Tick

SpecRLSeq == InitRL /\ [][NextRLSeq]_vars

\* The rate limiter under each configured window length: the default, a
\* shorter one and a longer one.
WindowLens == {MinuteLen \div 2, MinuteLen, 2 * MinuteLen}

InitWin ==
  /\ InitStores
  /\ quota = MaxCalls
  /\ config \in [appSecret : {FALSE}, verifyToken : {DefaultVerifyToken},
                  rateLimitRequests : 1..MaxLimit,
                  rateLimitWindowSeconds : WindowLens]
  /\ menu_items = SeededMenu
  /\ wire \in {w \in Wires : w.m2.from = "s2"}

SpecWin == InitWin /\ [][NextRLSeq]_vars

\* ------------------------------------------------------- routing alone
\* The texts, button ids and list row ids a sender can produce: the
\* vocabulary as it is and shouted with blanks around it, texts outside the
\* vocabulary, every button id, ids that are in no map, missing ids.
UpperChar(c) ==
  IF \E i \in 1..Len(Lower) : Lower[i] = c
  THEN Upper[CHOOSE i \in 1..Len(Lower) : Lower[i] = c]
  ELSE c

Shout(w) == <<" ">> \o [i \in 1..Len(w) |-> UpperChar(w[i])] \o <<"\t", "\n">>

Vocabulary ==
  Words.Home \cup Words.Faq \cup Words.Catalogue \cup Words.Booking
    \cup Words.Lead \cup {W.more} \cup Words.History

OtherTexts ==
  { <<>>, <<" ">>, <<"a", "s", "d", "f", "1", "2", "3">>,
    <<"h", "i", " ", "y", "o", "u">>, <<"f", "a", "q", "s">>,
    <<"m", " ", "o", "r", "e">>, <<"H", "I", "!">> }

RouteTexts == Vocabulary \cup {Shout(w) : w \in Vocabulary} \cup OtherTexts

ButtonIds ==
  {BTN_MENU, BTN_ORDER, BTN_MORE, BTN_BACK_HOME, BTN_CONTACT, BTN_HISTORY,
   BTN_DEMO, BTN_FAQ, BTN_CATALOGUE, BTN_BOOKING, BTN_LEAD}

RouteContents ==
  {TextContent(t) : t \in RouteTexts}
    \cup {ButtonContent(rid) : rid \in ButtonIds \cup ObjectPrototype \cup {"BTN_X", NoVal}}
    \cup {ListContent(rid) : rid \in SeededMenu \cup ObjectPrototype \cup {"ITEM_X", NoVal}}
    \cup {OtherInteractive, ImageContent}

RouteWires ==
  { [m1 |-> [from |-> "s1", content |-> c],
     m2 |-> [from |-> "s1", content |-> ListContent(ITEM_PIZZA)]] :
    c \in RouteContents }

\* The store's available items: none, or one of the three.
RouteMenus == {{}, {ITEM_PIZZA}}

InitRoute ==
  /\ InitStores
  /\ quota = MaxRouted
  /\ config \in {c \in Configs : ~c.appSecret}
  /\ menu_items \in RouteMenus
  /\ wire \in RouteWires

NextRoute ==
  \/ \E r \in Reqs : ReceiveSeq(r)
  \/ \E r \in Reqs : Work(r)

SpecRoute == InitRoute /\ [][NextRoute]_vars

\* ------------------------------------------ catalogue and order alone
\* The catalogue store in each of its states: no available item, one of the
\* seeded rows, all of them, or one row whose item_id is a name of
\* Object.prototype; a sender asks for the catalogue or picks a row.
InitCatalogue ==
  /\ InitStores
  /\ quota = MaxRouted
  /\ config \in {c \in Configs : ~c.appSecret}
  /\ menu_items \in {{}, {ITEM_PIZZA}, SeededMenu, {KEY_PROTO}}
  /\ wire \in
       { [m1 |-> [from |-> "s1", content |-> c],
          m2 |-> [from |-> "s1", content |-> ListContent(ITEM_PIZZA)]] :
         c \in {TextContent(W.catalogue), ButtonContent(BTN_CATALOGUE)}
                 \cup {ListContent(rid) :
                         rid \in SeededMenu \cup {KEY_PROTO, "ITEM_X"}} }

NextCatalogue ==
  \/ \E r \in Reqs : ReceiveSeq(r)
  \/ \E r \in Reqs : LogInbound(r)
  \/ \E r \in Reqs : AlreadyProcessed(r)
  \/ \E r \in Reqs : MarkProcessed(r)
  \/ \E r \in Reqs : IsUserBlocked(r)
  \/ \E r \in Reqs : RLSelect(r)
  \/ \E r \in Reqs : RLUpdate(r)
  \/ \E r \in Reqs : RLInsert(r)
  \/ \E r \in Reqs : UserSelect(r)
  \/ \E r \in Reqs : UserWrite(r)
  \/ \E r \in Reqs : Send(r)
  \/ \E r \in Reqs : CatalogueGetMenuItems(r)
  \/ \E r \in Reqs : OrderGetMenuItems(r)
  \/ \E r \in Reqs : CreateOrderSelect(r)
  \/ \E r \in Reqs : CreateOrderInsert(r)

SpecCatalogue == InitCatalogue /\ [][NextCatalogue]_vars

\* ------------------------------------ contacts of one sender over time
\* Two messages of one sender, delivered concurrently or one after the
\* other, while time passes.
UserWires ==
  { [m1 |-> [from |-> "s1", content |-> TextContent(<<"h", "i">>)],
     m2 |-> [from |-> "s1", content |-> ImageContent]] }

InitUser ==
  /\ InitStores
  /\ quota = MaxBurst
  /\ config \in {c \in Configs : ~c.appSecret}
  /\ menu_items = SeededMenu
  /\ wire \in UserWires

NextUser ==
  \/ \E r \in Reqs : Receive(r)
  \/ \E r \in Reqs : LogInbound(r)
  \/ \E r \in Reqs : AlreadyProcessed(r)
  \/ \E r \in Reqs : MarkProcessed(r)
  \/ \E r \in Reqs : IsUserBlocked(r)
  \/ \E r \in Reqs : RLSelect(r)
  \/ \E r \in Reqs : RLUpdate(r)
  \/ \E r \in Reqs : RLInsert(r)
  \/ \E r \in Reqs : UserSelect(r)
  \/ \E r \in Reqs : UserWrite(r)
  \/ \E r \in Reqs : Send(r)
  \/ Tick

SpecUser == InitUser /\ [][NextUser]_vars

\* ------------------------------------- redeliveries over a longer time
\* One sender's lead request and order, each delivered any number of times,
\* one delivery after the other, while time passes and the administrator
\* blocks and unblocks the sender.
InitRedeliver ==
  /\ InitStores
  /\ quota = MaxDeliveries
  /\ config \in {c \in Configs : ~c.appSecret}
  /\ menu_items = SeededMenu
  /\ wire = [m1 |-> [from |-> "s1", content |-> ButtonContent(BTN_LEAD)],
             m2 |-> [from |-> "s1", content |-> ListContent(ITEM_ZINGER)]]

NextRedeliver ==
  \/ \E r \in Reqs : ReceiveSeq(r)
  \/ \E r \in Reqs : LogInbound(r)
  \/ \E r \in Reqs : AlreadyProcessed(r)
  \/ \E r \in Reqs : MarkProcessed(r)
  \/ \E r \in Reqs : IsUserBlocked(r)
  \/ \E r \in Reqs : RLSelect(r)
  \/ \E r \in Reqs : RLUpdate(r)
  \/ \E r \in Reqs : RLInsert(r)
  \/ \E r \in Reqs : UserSelect(r)
  \/ \E r \in Reqs : UserWrite(r)
  \/ \E r \in Reqs : Send(r)
  \/ \E r \in Reqs : OrderGetMenuItems(r)
  \/ \E r \in Reqs : CaptureLeadSelect(r)
  \/ \E r \in Reqs : CaptureLeadWrite(r)
  \/ \E r \in Reqs : CreateOrderSelect(r)
  \/ \E r \in Reqs : CreateOrderInsert(r)
  \/ \E s \in Senders : AdminSetBlocked(s)
  \/ Tick

SpecRedeliver == InitRedeliver /\ [][NextRedeliver]_vars

\* ------------------------------------------ the message log store fails
\* The message-log store goes down or comes back.
ToggleLogStore ==
  /\ logStoreUp' = ~logStoreUp
  /\ UNCHANGED <<now, stores, config, wire, menu_items, handshake, userStates,
                 botOut, leadTurns, req,
                 quota, tallies, rlTallies>>

InitLog ==
  /\ InitStores
  /\ quota = MaxLogged
  /\ config \in {c \in Configs : ~c.appSecret}
  /\ menu_items = SeededMenu
  /\ wire \in Wires

NextLog ==
  \/ \E r \in Reqs : ReceiveSeq(r)
  \/ \E r \in Reqs : Work(r)
  \/ \E s \in Senders : AdminSetBlocked(s)
  \/ ToggleLogStore

SpecLog == InitLog /\ [][NextLog]_vars

\* ------------------------------------ the secondary, in-memory bot

\* String.prototype.includes
includes(s, w) ==
  \E i \in 0..(Len(s) - Len(w)) : SubSeq(s, i + 1, i + Len(w)) = w

Digits == <<"0", "1", "2", "3", "4", "5", "6", "7", "8", "9">>

RECURSIVE ParseDigits(_, _)
ParseDigits(s, acc) ==
  IF s = <<>> \/ ~(\E i \in 1..Len(Digits) : Digits[i] = Head(s)) THEN acc
  ELSE ParseDigits(Tail(s), 10 * acc
                     + (CHOOSE i \in 1..Len(Digits) : Digits[i] = Head(s)) - 1)

\* parseInt of a trimmed text: an optional sign and the leading digits; nan
\* when there is no digit there.
parseInt(s) ==
  LET signed == s # <<>> /\ Head(s) \in {"+", "-"}
      body == IF signed THEN Tail(s) ELSE s
  IN  IF body = <<>> \/ ~(\E i \in 1..Len(Digits) : Digits[i] = Head(body))
      THEN [nan |-> TRUE, val |-> 0]
      ELSE [nan |-> FALSE,
            val |-> IF Head(s) = "-" THEN 0 - ParseDigits(body, 0)
                    ELSE ParseDigits(body, 0)]

\* The result of a branch of processMessage: handled = FALSE when the branch
\* returned nothing and control falls through; set = TRUE when it called
\* userStates.set(from, st).
Returns(st, reply) == [handled |-> TRUE, set |-> TRUE, st |-> st, reply |-> reply]
ReturnsOnly(reply) == [handled |-> TRUE, set |-> FALSE, st |-> NoState, reply |-> reply]
FallsThrough == [handled |-> FALSE, set |-> FALSE, st |-> NoState, reply |-> Reply("none")]

\* The reset test with a slip: only 'menu' resets.
resetWord_MenuOnly(text) == text = W.menu

\* text === 'menu' || text === 'demo cpc' || text === 'start'
resetWord(text) == text = W.menu \/ text = W.demo_cpc \/ text = W.start

\* The selections of state main, in the order the code tests them.
mainMenuSelection(text) ==
  IF text = <<"1">> \/ includes(text, W.faq)
    THEN Returns(St("faq"), Reply("faq_menu"))
  ELSE IF text = <<"2">> \/ includes(text, W.catalogue) \/ includes(text, W.catalog)
    THEN Returns(St("catalogue"), Reply("catalogue"))
  ELSE IF text = <<"3">> \/ includes(text, W.booking) \/ includes(text, W.order)
    THEN Returns(St("booking"), Reply("booking_slots"))
  ELSE IF text = <<"4">> \/ includes(text, W.lead)
    THEN Returns(St("lead_name"), Reply("lead_intro"))
  ELSE IF text = <<"5">> \/ includes(text, W.follow)
    THEN Returns(St("main"), Reply("follow_up"))
  ELSE FallsThrough

\* State faq: the keyword answers; the state is left as it is.
faqState(text) ==
  IF includes(text, W.hour) \/ includes(text, W.time) \/ includes(text, W.open)
       \/ includes(text, W.close)
    THEN ReturnsOnly(Reply("faq_hours"))
  ELSE IF includes(text, W.location) \/ includes(text, W.address)
            \/ includes(text, W.where)
    THEN ReturnsOnly(Reply("faq_location"))
  ELSE IF includes(text, W.service) \/ includes(text, W.offer)
            \/ includes(text, W.do_you)
    THEN ReturnsOnly(Reply("faq_services"))
  ELSE IF includes(text, W.price) \/ includes(text, W.cost)
            \/ includes(text, W.how_much)
    THEN ReturnsOnly(Reply("faq_prices"))
  ELSE ReturnsOnly(Reply("faq_help"))

catalogueState(text) ==
  LET itemNum == parseInt(text)
  IN  IF ~itemNum.nan /\ itemNum.val >= 1 /\ itemNum.val <= 3
      THEN Returns(St("main"), [Reply("catalogue_item") EXCEPT !.slot = itemNum.val])
      ELSE FallsThrough

bookingState(text) ==
  LET slotNum == parseInt(text)
      day == IF slotNum.val <= 3 THEN "today" ELSE "tomorrow"
  IN  IF ~slotNum.nan /\ slotNum.val >= 1 /\ slotNum.val <= 7
      THEN Returns([St("booking_confirm") EXCEPT !.slot = slotNum.val, !.day = day],
                   [Reply("booking_reserved") EXCEPT !.slot = slotNum.val, !.day = day])
      ELSE FallsThrough

bookingConfirmation(userState, text) ==
  IF includes(text, W.yes) \/ includes(text, W.confirm)
    THEN Returns(St("main"), [Reply("booking_confirmed") EXCEPT
                                !.slot = userState.slot, !.day = userState.day])
  ELSE IF includes(text, W.no) \/ includes(text, W.cancel)
    THEN Returns(St("main"), Reply("booking_cancelled"))
  ELSE FallsThrough

\* The lead capture flow with a slip: the name is not carried over when the
\* email is stored.
leadCaptureFlow_DropName(userState, from, messageText) ==
  IF userState.state = "lead_name"
    THEN Returns([St("lead_email") EXCEPT !.name = Val(messageText)],
                 [Reply("lead_ask_email") EXCEPT !.echo = Val(messageText)])
  ELSE IF userState.state = "lead_email"
    THEN Returns([St("lead_business") EXCEPT !.email = Val(messageText)],
                 Reply("lead_ask_business"))
  ELSE IF userState.state = "lead_business"
    THEN Returns(St("main"),
                 [Reply("lead_saved") EXCEPT
                    !.name = userState.name, !.email = userState.email,
                    !.business = Val(messageText), !.phone = from])
  ELSE FallsThrough

\* The lead capture flow: the raw message text is stored as name, then as
\* email, and reported with the business and the sender's number.
leadCaptureFlow(userState, from, messageText) ==
  IF userState.state = "lead_name"
    THEN Returns([St("lead_email") EXCEPT !.name = Val(messageText)],
                 [Reply("lead_ask_email") EXCEPT !.echo = Val(messageText)])
  ELSE IF userState.state = "lead_email"
    THEN Returns([St("lead_business") EXCEPT !.email = Val(messageText),
                                             !.name = userState.name],
                 Reply("lead_ask_business"))
  ELSE IF userState.state = "lead_business"
    THEN Returns(St("main"),
                 [Reply("lead_saved") EXCEPT
                    !.name = userState.name, !.email = userState.email,
                    !.business = Val(messageText), !.phone = from])
  ELSE FallsThrough

\* processMessage(from, messageText): the reply and the entry it stores.
processMessage(states, from, messageText) ==
  LET text == trim(ToLowerCase(messageText))
      userState == IF states[from].present THEN states[from] ELSE St("main")
      main == IF userState.state = "main" THEN mainMenuSelection(text)
              ELSE FallsThrough
      faq == IF userState.state = "faq" THEN faqState(text) ELSE FallsThrough
      cat == IF userState.state = "catalogue" THEN catalogueState(text)
             ELSE FallsThrough
      booking == IF userState.state = "booking" THEN bookingState(text)
                 ELSE FallsThrough
      confirm == IF userState.state = "booking_confirm"
                 THEN bookingConfirmation(userState, text) ELSE FallsThrough
      lead == leadCaptureFlow(userState, from, messageText)
  IN  IF resetWord(text) THEN Returns(St("main"), Reply("main_menu"))
      ELSE IF main.handled THEN main
      ELSE IF faq.handled THEN faq
      ELSE IF cat.handled THEN cat
      ELSE IF booking.handled THEN booking
      ELSE IF confirm.handled THEN confirm
      ELSE IF lead.handled THEN lead
      ELSE ReturnsOnly(Reply("not_understood"))

\* The state name processMessage works with for a sender.
StateOf(states, s) == IF states[s].present THEN states[s].state ELSE "main"

\* POST /webhook of the secondary bot: a message without text is answered
\* with nothing; otherwise processMessage runs and its reply is sent (a
\* failed send is caught inside sendWhatsAppMessage).
BotPost(from, messageText) ==
  /\ IF messageText = <<>>
     THEN /\ botOut' = [from |-> from, text |-> messageText,
                        was |-> StateOf(userStates, from), reply |-> Reply("none")]
          /\ UNCHANGED <<userStates, leadTurns>>
     ELSE LET out == processMessage(userStates, from, messageText)
              text == trim(ToLowerCase(messageText))
          IN  /\ userStates' = IF out.set THEN [userStates EXCEPT ![from] = out.st]
                               ELSE userStates
              /\ botOut' = [from |-> from, text |-> messageText,
                            was |-> StateOf(userStates, from), reply |-> out.reply]
              /\ leadTurns' =
                   [leadTurns EXCEPT ![from] =
                      IF StateOf(userStates', from) \in {"lead_email", "lead_business"}
                      THEN Append(@, messageText) ELSE <<>>]
  /\ UNCHANGED <<now, stores, config, wire, menu_items, handshake, logStoreUp,
                 req, quota, tallies, rlTallies>>

\* What the senders type: the reset words as they are and shouted, the menu
\* numbers, texts with one or two keywords, answers to the lead questions,
\* a message without text; a second sender resets, starts a lead capture
\* and answers.
BotTexts ==
  {W.menu, Shout(W.menu), W.demo_cpc, W.start,
   <<"1">>, <<"2">>, <<"3">>, <<"4">>, <<"5">>, W.lead,
   W.order \o <<" ">> \o W.lead,
   <<"A", "l", "i">>, <<"a", "@", "b">>, W.yes, <<"h", "o", "u", "r", "s">>, <<>>}

InitBot ==
  /\ InitStores
  /\ quota = 0
  /\ config \in {c \in Configs : ~c.appSecret /\ c.rateLimitRequests = MaxLimit}
  /\ menu_items = SeededMenu
  /\ wire \in UserWires

NextBot ==
  \/ \E t \in BotTexts : BotPost("s1", t)
  \/ \E t \in {W.menu, <<"4">>, <<"B", "o", "b">>} : BotPost("s2", t)

SpecBot == InitBot /\ [][NextBot]_vars

\* ------------------------------------------- handshakes between POSTs
InitGet ==
  /\ InitStores
  /\ quota = MaxPosts
  /\ config \in [appSecret : {FALSE}, verifyToken : {DefaultVerifyToken, "tok2"},
                  rateLimitRequests : {MaxLimit},
                  rateLimitWindowSeconds : {MinuteLen}]
  /\ menu_items = SeededMenu
  /\ wire \in {w \in Wires : w.m2.from = "s2"}

NextGet ==
  \/ Handshake
  \/ \E r \in Reqs : ReceiveSeq(r)
  \/ \E r \in Reqs : LogInbound(r)
  \/ \E r \in Reqs : AlreadyProcessed(r)
  \/ \E r \in Reqs : MarkProcessed(r)
  \/ \E r \in Reqs : IsUserBlocked(r)
  \/ \E r \in Reqs : RLSelect(r)
  \/ \E r \in Reqs : RLInsert(r)
  \/ \E r \in Reqs : UserSelect(r)
  \/ \E r \in Reqs : UserWrite(r)
  \/ \E r \in Reqs : Send(r)

SpecGet == InitGet /\ [][NextGet]_vars

\* ============================================================== claims
Done(r) == req[r].mode = "post" /\ req[r].pc = "done"

\* The request carries the HMAC of its body, or no app secret is configured.
PassedSignature(r) == ~config.appSecret \/ req[r].sigMatch

NoMessageBodies == {"null", "status", "empty", "noid", "nofrom", "noreply"}

Quiet == \A r \in Reqs : ~InFlight(r)

Min(a, b) == IF a < b THEN a ELSE b

\* The flow of message id m writes a Lead or an Order row when it runs.
WritingPayload(m) ==
  LET msg == extractMessage(JsonParse(m, wire))
  IN  \/ FlowOf(msg) = "LeadCapture"
      \/ FlowOf(msg) = "Order" /\ ItemFound(menu_items, msg.reply_id)

\* C1: for every message id, however its deliveries interleave, the routing
\* of POST (flow handler, Order/Lead write, replies) runs at most once.
C1_RoutedAtMostOnce == \A m \in MsgIds : routed[m] <= 1

\* A delivery that arrives after an earlier delivery of the same message id
\* was answered: HTTP 200 `duplicate`, nothing sent, nothing written.
SecondDeliverySilent ==
  \A r \in Reqs :
    Done(r) /\ req[r].seq =>
      /\ req[r].http = 200 /\ req[r].status = "duplicate"
      /\ req[r].sends = <<>>
      /\ req[r].nDb = 0 /\ req[r].nUser = 0 /\ req[r].nRate = 0

C3_BadSignatureIs401 ==
  \A r \in Reqs :
    Done(r) /\ config.appSecret /\ ~req[r].sigMatch =>
      /\ req[r].http = 401
      /\ req[r].nMark = 0 /\ req[r].nRate = 0 /\ req[r].nUser = 0
      /\ req[r].nDb = 0 /\ req[r].sends = <<>>

\* C4: every POST that is not rejected for its signature is answered 200;
\* a body that does not parse as JSON is answered `ignored`.
C4_Always200 ==
  \A r \in Reqs :
    Done(r) /\ PassedSignature(r) =>
      /\ req[r].http = 200
      /\ req[r].body = "badjson" => req[r].status = "ignored"

\* C5: of the checkRateLimit calls of one sender in one window, however they
\* interleave, at most rateLimitRequests return allowed = true.
C5_AtMostMaxAllowed ==
  \A k \in Senders \X Windows : rlAllowed[k] <= config.rateLimitRequests

\* C6: with one call after the other, a call is allowed exactly when it is
\* among the first rateLimitRequests calls of its sender in its window; each
\* window counts on its own, and the row of a window holds the number of
\* calls made in it, capped at the limit, whatever later windows do.
C6_FirstMaxPerWindow ==
  /\ \A r \in Reqs :
       req[r].pc = "rl_ret" =>
         (req[r].allowed <=> req[r].ord <= config.rateLimitRequests)
  /\ Quiet =>
       \A k \in Senders \X Windows :
         /\ rate_limits[k] = Min(rlCalls[k], config.rateLimitRequests)
         /\ rlAllowed[k] = Min(rlCalls[k], config.rateLimitRequests)

C6_Witness ==
  \E s \in Senders :
    /\ Quiet
    /\ rlCalls[<<s, 0>>] > config.rateLimitRequests
    /\ rate_limits[<<s, 0>>] = config.rateLimitRequests
    /\ rlAllowed[<<s, MinuteLen>>] >= 1

\* C7: a message of a sender who is blocked while it is handled causes no
\* send, no rate-counter write, no user write and no Order/Lead write, and is
\* answered 200: `duplicate` when it is a redelivery, `blocked` otherwise.
C7_BlockedIsSilent ==
  \A r \in Reqs :
    req[r].mode = "post" /\ req[r].blockedAll =>
      /\ req[r].sends = <<>>
      /\ req[r].nRate = 0 /\ req[r].nUser = 0 /\ req[r].nDb = 0
      /\ req[r].flows = <<>>
      /\ req[r].pc = "done" =>
           /\ req[r].http = 200
           /\ req[r].status = IF req[r].seq THEN "duplicate" ELSE "blocked"

C7_Witness ==
  \E r \in Reqs :
    /\ Done(r) /\ req[r].blockedAll /\ ~req[r].seq
    /\ req[r].status = "blocked"
    /\ req[r].nMark = 1

\* What C8 says of a rejected message apart from the status of the response.
RateLimitedHandling(r) ==
  /\ req[r].flows = <<>>
  /\ req[r].nDb = 0 /\ req[r].nUser = 0
  /\ Len(req[r].sends) <= 1
  /\ req[r].pc = "done" =>
       /\ req[r].http = 200
       /\ Len(req[r].sends) = 1
       /\ req[r].sends[1].tag = "slow_down"

\* C8 as stated: a message for which checkRateLimit returns allowed = false
\* gets one slow-down text, no flow, no Order/Lead write, no user upsert, and
\* the response 200 `rate_limited`.
C8_RateLimitedStatus ==
  \A r \in Reqs :
    req[r].mode = "post" /\ ~req[r].allowed =>
      /\ RateLimitedHandling(r)
      /\ req[r].pc = "done" => req[r].status = "rate_limited"

\* C8 amended: the one send attempted is the slow-down text, and the response
\* is 200 `rate_limited` when that send succeeds and 200 `error` when it fails.
C8_RateLimitedOrError ==
  \A r \in Reqs :
    req[r].mode = "post" /\ ~req[r].allowed =>
      /\ RateLimitedHandling(r)
      /\ req[r].pc = "done" =>
           req[r].status = IF req[r].sends[1].ok THEN "rate_limited" ELSE "error"

C8_Witness ==
  \E r \in Reqs :
    /\ Done(r) /\ ~req[r].allowed
    /\ req[r].status = "rate_limited"
    /\ req[r].sends[1].ok

\* C9: a POST whose payload yields no message (extractMessage returns null)
\* or a message without id or sender is answered 200 `ignored`, and the step
\* that answers it leaves processed_messages, rate_limits, users and the
\* message log as they were and sends nothing.
C9_IgnoredTouchesNothing ==
  [][\A r \in Reqs :
       (/\ req'[r] # req[r]
        /\ req'[r].mode = "post" /\ req'[r].pc = "done"
        /\ req'[r].body \in NoMessageBodies
        /\ (~config.appSecret \/ req'[r].sigMatch))
       => /\ req'[r].http = 200 /\ req'[r].status = "ignored"
          /\ req'[r].sends = <<>>
          /\ UNCHANGED <<processed_messages, rate_limits, users, message_logs>>]_vars

C9_Witness ==
  \E r \in Reqs :
    /\ Done(r) /\ PassedSignature(r)
    /\ req[r].body = "status" /\ req[r].status = "ignored"
    /\ processed_messages # {}

\* C10: a send that fails is the last send of its request: the request ends
\* there with the response 200 `error`, the rest of the flow is not sent and
\* the failed send is not repeated.
C10_FailedSendEndsRequest ==
  \A r \in Reqs :
    \A i \in 1..Len(req[r].sends) :
      ~req[r].sends[i].ok =>
        /\ i = Len(req[r].sends)
        /\ req[r].pc = "done"
        /\ req[r].http = 200 /\ req[r].status = "error"

C10_Witness ==
  \E r \in Reqs :
    /\ Done(r) /\ req[r].status = "error"
    /\ req[r].flows = <<"LeadCapture">>
    /\ Len(req[r].sends) = 1 /\ ~req[r].sends[1].ok

\* The tags of the sends of request r, in order, and whether all succeeded.
Tags(r) == [i \in 1..Len(req[r].sends) |-> req[r].sends[i].tag]
AllSent(r) == \A i \in 1..Len(req[r].sends) : req[r].sends[i].ok

\* The current catalogue: the store's available items, or the three demo
\* items if and only if the store has none.
CurrentCatalogue ==
  IF menu_items = {} THEN {ITEM_ZINGER, ITEM_PIZZA, ITEM_FRIES} ELSE menu_items

\* C11: a list reply answered `ok` whose replyId is in the current catalogue
\* has created exactly one Order row and sent the confirmation followed by
\* the Home menu; one whose replyId is not in the catalogue has created no
\* Order row and sent the not-recognized text followed by the catalogue list.
C11_OrderIffInCatalogue ==
  \A r \in Reqs :
    Done(r) /\ req[r].msg.kind = "list" /\ req[r].status = "ok" =>
      IF req[r].msg.reply_id \in CurrentCatalogue
      THEN /\ req[r].nRows = 1
           /\ Tags(r) = <<"order_placed", "home">>
      ELSE /\ req[r].nRows = 0 /\ req[r].nDb = 0
           /\ Tags(r) = <<"not_recognized", "catalogue">>

\* LeadCapture has run its store call for sender s.
LeadCaptured(s) ==
  \E r \in Reqs :
    /\ req[r].mode = "post" /\ req[r].msg.from = s
    /\ req[r].flows = <<"LeadCapture">> /\ req[r].nDb >= 1

Normalised(t) ==
  LET idx == {k \in 1..Len(t) : ~IsSpace(t[k])}
      lo == CHOOSE k \in idx : \A j \in idx : k <= j
      hi == CHOOSE k \in idx : \A j \in idx : k >= j
      cut == IF idx = {} THEN <<>> ELSE SubSeq(t, lo, hi)
  IN  [k \in 1..Len(cut) |-> LowerChar(cut[k])]

\* The routing table of C13.
TextTable(n) ==
  CASE n \in {W.hi, W.hello, W.start, W.hey, W.hola, W.menu} -> "Home"
    [] n \in {W.faq, W.help} -> "FAQ"
    [] n \in {W.catalogue, W.catalog, W.products, W.order} -> "Catalogue"
    [] n \in {W.book, W.booking, W.appointment} -> "Booking"
    [] n \in {W.lead, W.contact, W.interest, W.demo} -> "LeadCapture"
    [] n = W.more -> "More"
    [] n \in {W.history, W.orders} -> "History"
    [] OTHER -> "Home"

\* C13: a text message that is routed runs exactly one flow, the one the
\* table gives for its trimmed, lower-cased text (Home for every text outside
\* the vocabulary, the empty text included), and is answered `ok` unless a
\* send fails.
C13_TextRouting ==
  \A r \in Reqs :
    req[r].mode = "post" /\ req[r].msg.kind = "text" /\ req[r].flows # <<>> =>
      /\ req[r].flows = <<TextTable(Normalised(req[r].msg.text))>>
      /\ Done(r) /\ AllSent(r) => req[r].http = 200 /\ req[r].status = "ok"

C13_Witness ==
  \E r \in Reqs :
    /\ Done(r) /\ req[r].status = "ok"
    /\ req[r].msg.text = Shout(W.order)
    /\ req[r].flows = <<"Catalogue">>
    /\ Tags(r) = <<"catalogue">>

\* The map of C14.
ButtonTable(rid) ==
  CASE rid \in {BTN_MENU, BTN_BACK_HOME} -> "Home"
    [] rid \in {BTN_ORDER, BTN_CATALOGUE} -> "Catalogue"
    [] rid = BTN_MORE -> "More"
    [] rid = BTN_HISTORY -> "History"
    [] rid \in {BTN_CONTACT, BTN_LEAD} -> "LeadCapture"
    [] rid = BTN_FAQ -> "FAQ"
    [] rid = BTN_BOOKING -> "Booking"
    [] OTHER -> "Home"

\* C14: a button message that is routed runs the flow the map gives for its
\* replyId, and Home for every replyId outside the map, a missing one
\* included.
C14_ButtonRouting ==
  \A r \in Reqs :
    req[r].mode = "post" /\ req[r].msg.kind = "button" /\ req[r].flows # <<>> =>
      req[r].flows = <<ButtonTable(req[r].msg.reply_id)>>

\* Request r carries a message that is neither text nor button nor list.
OtherKind(r) ==
  /\ req[r].mode = "post" /\ ~req[r].msg.null
  /\ req[r].msg.kind \notin {"text", "button", "list"}

\* C15: a message of another kind is never answered `ignored`: unless it is
\* a redelivery it is marked processed and counted by the rate limiter; when
\* allowed, the user is upserted and the unsupported-type text and then the
\* Home menu are sent; when rejected, only the slow-down text is sent.
C15_OtherKindGetsFallback ==
  \A r \in Reqs :
    OtherKind(r) /\ req[r].pc = "done" =>
      /\ req[r].http = 200 /\ req[r].status # "ignored"
      /\ req[r].status = "duplicate" => req[r].sends = <<>> /\ req[r].nMark = 0
      /\ req[r].status # "duplicate" =>
           /\ req[r].nMark = 1 /\ req[r].ord >= 1
           /\ IF req[r].allowed
              THEN /\ req[r].nRate = 1 /\ req[r].nUser = 1
                   /\ req[r].flows = <<"Unsupported">>
                   /\ AllSent(r) =>
                        /\ Tags(r) = <<"unsupported", "home">>
                        /\ req[r].status = "ok"
              ELSE /\ req[r].flows = <<>> /\ req[r].nUser = 0
                   /\ Tags(r) = <<"slow_down">>

C15_Witness ==
  \E r \in Reqs :
    /\ OtherKind(r) /\ req[r].pc = "done"
    /\ req[r].msg.kind = "interactive_other"
    /\ req[r].status = "ok"
    /\ Tags(r) = <<"unsupported", "home">>
    /\ req[r].nUser = 1 /\ req[r].nMark = 1

\* C16: a handshake is answered 200 with hub.challenge as body exactly when
\* hub.mode is subscribe and hub.verify_token is the configured token, and
\* 403 otherwise; the step that answers it changes neither a table nor a
\* request in flight.
C16_HandshakeIff ==
  /\ [](handshake.http # 0 =>
          IF handshake.mode = "subscribe" /\ handshake.token = config.verifyToken
          THEN handshake.http = 200 /\ handshake.body = handshake.challenge
          ELSE handshake.http = 403)
  /\ [][handshake' # handshake => UNCHANGED <<stores, req, quota>>]_vars

C16_Witness ==
  /\ handshake.http = 200 /\ handshake.body = "c1"
  /\ handshake.token = "tok2"
  /\ processed_messages # {}
  /\ \E s \in Senders : users[s].exists

\* C17 as stated: the row of a message id in processed_messages is never
\* there before the routing of that message has run.
C17_MarkAfterRouting ==
  \A m \in MsgIds : m \in processed_messages => routed[m] >= 1

\* C17 amended: markProcessed follows the dedup check at once, so the row of
\* a message id is there before the blocked check, the rate limiter, the
\* user upsert and the routing of that message, and also for a message that
\* ends as blocked or rate-limited without being routed.
C17_MarkBeforeRouting ==
  \A r \in Reqs :
    req[r].mode = "post" =>
      /\ req[r].pc \in {"blocked", "rl_select", "rl_update", "rl_insert",
                        "user_select", "user_write", "flow"} =>
           req[r].nMark = 1 /\ req[r].msg.id \in processed_messages
      /\ req[r].flows # <<>> =>
           req[r].nMark = 1 /\ req[r].msg.id \in processed_messages
      /\ req[r].pc = "done" /\ req[r].status \in {"blocked", "rate_limited"} =>
           /\ req[r].nMark = 1 /\ req[r].msg.id \in processed_messages
           /\ req[r].flows = <<>>

C17_Witness ==
  \E r \in Reqs :
    /\ req[r].mode = "post" /\ req[r].pc = "user_write"
    /\ req[r].nMark = 1 /\ req[r].msg.id \in processed_messages
    /\ routed[req[r].msg.id] = 0

\* C18: every step in which a request makes a send call, accepted or failed,
\* adds one outbound row for the recipient to the message log.
C18_EverySendLogged ==
  [][\A r \in Reqs :
       Len(req'[r].sends) = Len(req[r].sends) + 1 =>
         message_logs'[<<req'[r].msg.from, "outbound">>]
           = message_logs[<<req'[r].msg.from, "outbound">>] + 1]_vars

\* C19: the window key a checkRateLimit call uses is the time of the call
\* floored to a multiple of the configured window length.
C19_WindowKeyIsFloor ==
  \A r \in Reqs :
    req[r].mode = "call" /\ req[r].pc \in {"rl_select", "rl_update", "rl_insert", "rl_ret"} =>
      req[r].windowStart = req[r].at - (req[r].at % config.rateLimitWindowSeconds)

\* C20: however checkRateLimit calls interleave, no counter row exceeds
\* rateLimitRequests (a row that exists holds at least 1), and the step in
\* which a call is rejected leaves every counter as it was.
C20_CounterWithinLimit ==
  /\ [](\A k \in Senders \X Windows :
          /\ rate_limits[k] >= 0
          /\ rate_limits[k] <= config.rateLimitRequests
          /\ rlAllowed[k] >= 1 => rate_limits[k] >= 1)
  /\ [][\A r \in Reqs :
          req[r].pc # "rl_ret" /\ req'[r].pc = "rl_ret" /\ ~req'[r].allowed =>
            UNCHANGED rate_limits]_vars

C20_Witness ==
  \E r \in Reqs :
    LET k == <<req[r].msg.from, req[r].windowStart>>
    IN  /\ req[r].pc = "rl_ret" /\ ~req[r].allowed
        /\ rate_limits[k] = config.rateLimitRequests
        /\ rlAllowed[k] > config.rateLimitRequests

\* C21 as stated: every inbound message that passes signature verification
\* and extraction causes a write of the User row of its sender (the insert
\* on first contact, the update of lastActiveAt afterwards).
C21_TouchOnEveryContact ==
  \A r \in Reqs : Done(r) /\ ~req[r].msg.null => req[r].nUser = 1

\* C21 amended: the User row is written exactly by the messages that reach
\* the user upsert, those that are routed; the write creates the row with
\* firstSeenAt = lastActiveAt = now when there is none, sets lastActiveAt to
\* now when the select found the row, and changes nothing when it lost the
\* insert race; firstSeenAt never changes and there is never more than one
\* row per sender.
C21_UserUpsert ==
  /\ [](\A s \in Senders :
          /\ users[s].rows <= 1
          /\ users[s].exists <=> users[s].rows = 1
          /\ users[s].exists => users[s].first_seen_at <= users[s].last_active_at)
  /\ [](\A r \in Reqs :
          req[r].mode = "post" =>
            /\ req[r].nUser = Len(req[r].flows)
            /\ req[r].pc = "done"
                 /\ req[r].status \in {"duplicate", "blocked", "rate_limited"}
                 => req[r].nUser = 0)
  /\ [][\A s \in Senders :
          users[s].exists =>
            /\ users'[s].exists
            /\ users'[s].first_seen_at = users[s].first_seen_at]_vars
  /\ [][\A r \in Reqs :
          req'[r].nUser = req[r].nUser + 1 =>
            LET s == req[r].msg.from
            IN  /\ users'[s].rows = 1
                /\ req[r].found => users'[s].last_active_at = now
                /\ ~users[s].exists =>
                     users'[s].first_seen_at = now /\ users'[s].last_active_at = now
                /\ ~req[r].found /\ users[s].exists => users'[s] = users[s]]_vars

C21_Witness ==
  \E r \in Reqs :
    /\ Done(r) /\ req[r].nUser = 1 /\ req[r].msg.id = "m2"
    /\ users[req[r].msg.from].first_seen_at = 0
    /\ users[req[r].msg.from].last_active_at > 0
    /\ completed["m1"] >= 1

C23_EndsInteractive ==
  \A r \in Reqs :
    Done(r) /\ req[r].flows # <<>> /\ AllSent(r) =>
      /\ req[r].sends # <<>>
      /\ req[r].sends[Len(req[r].sends)].shape \in {"buttons", "list"}
      /\ \/ req[r].flows[1] \in {"LeadCapture", "History", "Unsupported"}
         \/ \E i \in 1..Len(req[r].sends) : req[r].sends[i].tag = "order_placed"
         => req[r].sends[Len(req[r].sends)].tag = "home"

\* The complete reply sequences of a flow, as tags.
FlowReplies(flow) ==
  CASE flow = "Home" -> {<<"home">>}
    [] flow = "FAQ" -> {<<"faq", "faq_more">>}
    [] flow = "Catalogue" -> {<<"catalogue">>}
    [] flow = "Booking" -> {<<"booking", "booking_more">>}
    [] flow = "LeadCapture" -> {<<"lead_captured", "home">>}
    [] flow = "More" -> {<<"more">>}
    [] flow = "History" -> {<<"no_orders", "home">>, <<"recent_orders", "home">>}
    [] flow = "Order" -> {<<"order_placed", "home">>, <<"not_recognized", "catalogue">>}
    [] flow = "Unsupported" -> {<<"unsupported", "home">>}
    [] OTHER -> {<<>>}

IsPrefix(a, b) == Len(a) <= Len(b) /\ a = SubSeq(b, 1, Len(a))

SomeSendFailed(r) == \E i \in 1..Len(req[r].sends) : ~req[r].sends[i].ok

\* What an answered request has done, told from its message, the dedup,
\* blocked and rate-limit verdicts and the fate of its sends alone.
PipelineOutcome(r) ==
  LET rec == req[r]
      isRouted == ~rec.dup /\ ~rec.sawBlocked /\ rec.allowed
      expected == IF rec.dup \/ rec.sawBlocked THEN {<<>>}
                  ELSE IF ~rec.allowed THEN {<<"slow_down">>}
                  ELSE FlowReplies(FlowOf(rec.msg))
  IN  /\ rec.http = 200
      /\ rec.status = IF rec.dup THEN "duplicate"
                       ELSE IF rec.sawBlocked THEN "blocked"
                       ELSE IF SomeSendFailed(r) THEN "error"
                       ELSE IF ~rec.allowed THEN "rate_limited"
                       ELSE IF FlowOf(rec.msg) = "NotCallable" THEN "error"
                       ELSE "ok"
      /\ rec.nMark = IF rec.dup THEN 0 ELSE 1
      /\ ~rec.dup => rec.msg.id \in processed_messages
      /\ rec.nRate = IF isRouted THEN 1 ELSE 0
      /\ rec.nUser = IF isRouted THEN 1 ELSE 0
      /\ rec.flows = IF isRouted THEN <<FlowOf(rec.msg)>> ELSE <<>>
      /\ \E e \in expected :
           IF SomeSendFailed(r)
           THEN /\ IsPrefix(Tags(r), e)
                /\ \A i \in 1..(Len(rec.sends) - 1) : rec.sends[i].ok
           ELSE Tags(r) = e
      /\ rec.nDb = IF /\ isRouted /\ rec.sends # <<>>
                       /\ Tags(r)[1] \in {"lead_captured", "order_placed"}
                    THEN 1 ELSE 0

\* C24: what an answered request has sent, written and returned is told by
\* its message, the verdicts of the checks and the fate of its sends, whether
\* its log inserts failed or not; a step in which a log insert fails adds no
\* log row and, when it ends the request, ends it with the status it would
\* have had; the log store going down or up changes no table and no
\* request; the log only grows, by one row at a time.
C24_LogFailureIsInert ==
  /\ [](\A r \in Reqs : Done(r) /\ ~req[r].msg.null => PipelineOutcome(r))
  /\ [][\A r \in Reqs :
          req'[r].nLogFail = req[r].nLogFail + 1 =>
            /\ UNCHANGED message_logs
            /\ req'[r].pc \in {"dedup", "flow", "done"}
            /\ req'[r].pc = "done" => req'[r].status = req[r].okStatus]_vars
  /\ [][logStoreUp' # logStoreUp => UNCHANGED <<stores, req, tallies, quota>>]_vars
  /\ [][\/ UNCHANGED message_logs
        \/ \E k \in DOMAIN message_logs :
             message_logs' = [message_logs EXCEPT ![k] = @ + 1]]_vars

C24_Witness ==
  \E r \in Reqs :
    /\ Done(r) /\ req[r].status = "ok" /\ req[r].flows = <<"LeadCapture">>
    /\ Tags(r) = <<"lead_captured", "home">>
    /\ req[r].nLogFail = 3
    /\ \A k \in DOMAIN message_logs : message_logs[k] = 0
    /\ leads[req[r].msg.from].rows = 1 /\ users[req[r].msg.from].rows = 1
    /\ req[r].msg.id \in processed_messages

\* C25: a request past the dedup check has its message id in
\* processed_messages before the blocked check, the rate limiter and the
\* routing run, also when it is then answered blocked, rate_limited or error;
\* a row of processed_messages is never removed; so a delivery that comes
\* after a completed delivery of the same message id is answered `duplicate`
\* without a mark, a rate count, a user write, a flow or a send, and no
\* message id is routed twice, whatever the clock and the blocked flag are
\* by then.
C25_MarkedWhateverTheOutcome ==
  /\ [](\A r \in Reqs :
          req[r].mode = "post" =>
            /\ req[r].pc \in {"blocked", "rl_select", "rl_update", "rl_insert",
                              "user_select", "user_write", "flow"} =>
                 req[r].msg.id \in processed_messages
            /\ req[r].pc = "done"
                 /\ req[r].status \in {"blocked", "rate_limited", "error"} =>
                 req[r].msg.id \in processed_messages
            /\ req[r].pc = "done" /\ req[r].seq =>
                 /\ req[r].status = "duplicate"
                 /\ req[r].flows = <<>> /\ req[r].sends = <<>>
                 /\ req[r].nMark = 0 /\ req[r].nRate = 0 /\ req[r].nUser = 0
                 /\ req[r].nDb = 0)
  /\ [](\A m \in MsgIds : routed[m] <= 1 /\ writes[m] <= 1)
  /\ [][processed_messages \subseteq processed_messages']_vars

C25_Witness ==
  \E r \in Reqs :
    /\ Done(r) /\ req[r].seq /\ req[r].status = "duplicate"
    /\ req[r].msg.id = "m1" /\ routed["m1"] = 0 /\ completed["m1"] = 2
    /\ users["s1"].exists /\ ~users["s1"].is_blocked
    /\ WindowStart(now) > 0
    /\ rate_limits[<<"s1", WindowStart(now)>>] = 0

\* Request r has made the send call tagged t.
HasSent(r, t) == \E i \in 1..Len(req[r].sends) : req[r].sends[i].tag = t

\* C26: a request that has sent (or tried to send) the order confirmation
\* has written an Order row of its sender and item before, and one that has
\* sent the lead-captured text has written the Lead row of its sender; the
\* row is there whatever became of the send; and the deliveries of one
\* message id make at most one such write together.
C26_ConfirmAfterWrite ==
  /\ \A r \in Reqs :
       req[r].mode = "post" =>
         /\ HasSent(r, "order_placed") =>
              /\ req[r].nRows = 1
              /\ \E i \in 1..Len(orders) :
                   /\ orders[i].wa_id = req[r].msg.from
                   /\ orders[i].item_id = req[r].msg.reply_id
         /\ HasSent(r, "lead_captured") =>
              req[r].nDb = 1 /\ leads[req[r].msg.from].rows = 1
  /\ \A m \in MsgIds : writes[m] <= 1

\* The flow each offered button names.
NamedFlow(id) ==
  CASE id = BTN_FAQ -> "FAQ"
    [] id = BTN_CATALOGUE -> "Catalogue"
    [] id = BTN_MORE -> "More"
    [] id = BTN_LEAD -> "LeadCapture"
    [] id = BTN_BACK_HOME -> "Home"
    [] id = BTN_BOOKING -> "Booking"
    [] id = BTN_HISTORY -> "History"
    [] OTHER -> "none"

OfferedButtons ==
  {BTN_FAQ, BTN_CATALOGUE, BTN_MORE, BTN_LEAD, BTN_BACK_HOME, BTN_BOOKING,
   BTN_HISTORY}

\* C27: every id of every buttons message a request sends is one of the
\* seven offered ids, has an entry of its own in the dispatch map, and that
\* entry is the flow the button names; and a routed button message carrying
\* such an id runs that flow.
C27_OfferedButtonsAreMapped ==
  \A r \in Reqs :
    /\ \A i \in 1..Len(req[r].sends) :
         req[r].sends[i].shape = "buttons" =>
           /\ req[r].sends[i].ids # {}
           /\ \A id \in req[r].sends[i].ids :
                /\ id \in OfferedButtons
                /\ handlers(id) = NamedFlow(id)
                /\ ButtonFlow(id) = NamedFlow(id)
    /\ req[r].mode = "post" /\ req[r].msg.kind = "button" /\ req[r].flows # <<>>
         /\ req[r].msg.reply_id \in OfferedButtons
         => req[r].flows = <<NamedFlow(req[r].msg.reply_id)>>

C27_Witness ==
  \E r \in Reqs :
    /\ Done(r) /\ req[r].status = "ok" /\ req[r].msg.kind = "button"
    /\ req[r].msg.reply_id = BTN_MORE /\ req[r].flows = <<"More">>
    /\ Len(req[r].sends) = 1 /\ req[r].sends[1].shape = "buttons"
    /\ BTN_HISTORY \in req[r].sends[1].ids

\* C28: the list showCatalogue sends offers exactly the current catalogue
\* (the store's available items, the demo items if and only if there is
\* none), and handleOrder resolves against the same catalogue: an item of it
\* is never answered not-recognized, and an order is placed only for an item
\* of it (names inherited from Object.prototype aside, see C11).
C28_CatalogueAgreesWithOrder ==
  \A r \in Reqs :
    /\ \A i \in 1..Len(req[r].sends) :
         req[r].sends[i].tag = "catalogue" =>
           /\ req[r].sends[i].ids = CurrentCatalogue
           /\ \A id \in req[r].sends[i].ids :
                OrderSteps(menu_items, id)[1].op = "createOrder_select"
    /\ req[r].mode = "post" /\ req[r].msg.kind = "list" =>
         /\ HasSent(r, "not_recognized") =>
              req[r].msg.reply_id \notin CurrentCatalogue
         /\ HasSent(r, "order_placed")
              /\ req[r].msg.reply_id \notin ObjectPrototype =>
              req[r].msg.reply_id \in CurrentCatalogue

\* The reset words of the secondary bot.
BotResetWords == {W.menu, W.demo_cpc, W.start}

\* C29: in every exchange of the secondary bot whose text, trimmed and in
\* lower case, is menu, demo cpc or start, whatever the conversation state
\* of the sender, the reply is the main menu, the sender's entry becomes
\* { state: main } and the entry of every other sender stays as it was.
C29_ResetReturnsToMain ==
  [][<<userStates, botOut, leadTurns>>' # <<userStates, botOut, leadTurns>> /\ Normalised(botOut'.text) \in BotResetWords =>
       /\ botOut'.reply.kind = "main_menu"
       /\ userStates'[botOut'.from] = St("main")
       /\ \A o \in Senders \ {botOut'.from} : userStates'[o] = userStates[o]]_vars

C29_Witness ==
  /\ botOut.from = "s1" /\ botOut.text = Shout(W.menu)
  /\ botOut.was = "lead_business"
  /\ botOut.reply.kind = "main_menu"
  /\ userStates["s1"] = St("main")
  /\ userStates["s2"].state = "lead_email"

\* A text the main menu takes as one of its first three selections.
EarlierSelection(n) ==
  \/ n = <<"1">> \/ includes(n, W.faq)
  \/ n = <<"2">> \/ includes(n, W.catalogue) \/ includes(n, W.catalog)
  \/ n = <<"3">> \/ includes(n, W.booking) \/ includes(n, W.order)

\* The turns of a lead capture once it has begun: each text that is not a
\* reset word moves the sender one state on, the third is answered with the
\* name, email and business given in the three turns and the sender's
\* number, and no other sender's entry changes.
LeadTurnsStep ==
  LET s == botOut'.from
      t == botOut'.text
      pre == StateOf(userStates, s)
      post == StateOf(userStates', s)
  IN  /\ pre = "lead_name" => post = "lead_email"
      /\ pre = "lead_email" => post = "lead_business"
      /\ pre = "lead_business" =>
           /\ post = "main"
           /\ Len(leadTurns[s]) = 2
           /\ botOut'.reply.kind = "lead_saved"
           /\ botOut'.reply.name = Val(leadTurns[s][1])
           /\ botOut'.reply.email = Val(leadTurns[s][2])
           /\ botOut'.reply.business = Val(t)
           /\ botOut'.reply.phone = s
      /\ \A o \in Senders \ {s} : userStates'[o] = userStates[o]

\* C30 as stated: in state main every text that is 4 or contains lead (and
\* is no reset word) moves the sender to lead_name, and the three turns
\* follow.
C30_LeadSequence ==
  [][<<userStates, botOut, leadTurns>>' # <<userStates, botOut, leadTurns>> /\ botOut'.text # <<>>
       /\ Normalised(botOut'.text) \notin BotResetWords =>
       /\ LeadTurnsStep
       /\ StateOf(userStates, botOut'.from) = "main"
            /\ \/ Normalised(botOut'.text) = <<"4">>
               \/ includes(Normalised(botOut'.text), W.lead)
            => StateOf(userStates', botOut'.from) = "lead_name"]_vars

\* C30 amended: in state main a text that is 4 or contains lead moves the
\* sender to lead_name unless it is a reset word or is taken as one of the
\* earlier selections (1 or faq, 2 or catalogue/catalog, 3 or
\* booking/order), which win; the three turns follow as long as no reset
\* word is sent, and a reset word during the capture ends it and drops what
\* was collected.
C30_LeadSequenceAfterEarlierSelections ==
  [][<<userStates, botOut, leadTurns>>' # <<userStates, botOut, leadTurns>> /\ botOut'.text # <<>> =>
       LET s == botOut'.from
           n == Normalised(botOut'.text)
           pre == StateOf(userStates, s)
           post == StateOf(userStates', s)
       IN  IF n \in BotResetWords
           THEN userStates'[s] = St("main")
           ELSE /\ LeadTurnsStep
                /\ pre = "main" /\ (n = <<"4">> \/ includes(n, W.lead)) =>
                     IF EarlierSelection(n)
                     THEN post \in {"faq", "catalogue", "booking"}
                     ELSE post = "lead_name"
                          /\ botOut'.reply.kind = "lead_intro"]_vars

C30_Witness ==
  /\ botOut.from = "s1" /\ botOut.was = "lead_business"
  /\ botOut.reply.kind = "lead_saved"
  /\ botOut.reply.name = Val(<<"A", "l", "i">>)
  /\ botOut.reply.email = Val(<<"a", "@", "b">>)
  /\ botOut.reply.business = Val(W.yes)
  /\ botOut.reply.phone = "s1"
  /\ userStates["s1"] = St("main")
  /\ userStates["s2"].state = "lead_business"
  /\ userStates["s2"].name = Val(<<"B", "o", "b">>)

====
